---- MODULE Spec2Model ----
(***************************************************************************)
(* A model of the EmojiSwapPro bot (src/telegram_bot.py): the command      *)
(* queue consumer, the forwarding fan-out of new channel messages, the     *)
(* emoji rewriter and the persisted store, with the producer of            *)
(* src/control_bot.py and the consumer of src/unified_telegram_bot.py.     *)
(*                                                                         *)
(* The module holds these specifications over one set of variables:        *)
(*   Spec         the command queue: producer, polling consumer, failures  *)
(*   BacklogSpec  the same consumer, fair, with a backlog above one batch  *)
(*   UnifiedSpec  the consumer of the unified bot                          *)
(*   ResultSpec   the consumer with the length of each outcome in view     *)
(*   ForwardSpec  new-message handling, fan-out, channel and task commands *)
(*   FanOutSpec   the fan-out alone, every coroutine scheduled fairly      *)
(*   RewriteSpec  the rewriter applied to bounded texts, spans and rules   *)
(*   StoreSpec    the commands on tables and caches, with restarts         *)
(*   PipelineSpec the whole new-message handler: rewrite, re-fetch, copies *)
(*   CopySpec     the content a copy sends                                 *)
(*   FlagSpec     the whole handler with the replacement flags switched    *)
(*   EditSpec     the whole handler with the post edited by people too     *)
(*   AdminSpec    the admin commands, queued and direct, with restarts     *)
(*   DeletionSpec delete, activate and delay commands on stored tasks      *)
(*   EchoSpec     one post, its copies observed as new messages, fair      *)
(* Each leaves the variables of the other parts unchanged.                 *)
(***************************************************************************)
EXTENDS Integers, Sequences, FiniteSets, TLC

\* ------------------------------------------------------------------ bounds
\* Rows the producer inserts in Spec.
MaxRows == 3
\* Rows the queue holds at most in BacklogSpec, which starts with BatchLimit + 1.
MaxBacklog == 12
\* Persistence calls that fail, and process deaths, in one behaviour.
MaxFaults == 2
\* Rows of the forwarding_tasks table, and so the copies made in CopySpec.
MaxTasks == 2
\* New-message events in one behaviour of ForwardSpec.
MaxMsgs == 1
\* Channel and task commands executed in one behaviour of ForwardSpec.
MaxOps == 1
\* Characters of a posted text.
MaxLen == 3
\* Rule and status commands executed in one behaviour of RewriteSpec.
MaxRuleOps == 2
\* Messages posted in one behaviour of RewriteSpec.
MaxPosts == 1
\* Edits people make to posts in one behaviour of EditSpec.
MaxEdits == 2
MaxStoreOps == 3

\* ------------------------------------------------------- program constants
\* LIMIT of the consumer's SELECT.
BatchLimit == 10
\* asyncio.sleep after a tick, and after a processor-level error.
PollInterval == 5
BackoffInterval == 10
\* if result and len(result) > 3000: result = result[:2900] + marker
TruncateOver == 3000
TruncateTo == 2900
\* len("\n\n... (النتيجة مقطوعة للطول)") and len("تم تنفيذ الأمر بنجاح")
MarkerLen == 28
DefaultLen == 20
MaxDelay == 3600

\* --------------------------------------------------------------- variables
VARIABLES
    command_queue,  \* the command_queue table: rows in creation order, id = index
    qpc,            \* where the consumer coroutine is suspended
    commands,       \* the batch fetched by the running tick (row ids, in order)
    idx,            \* position in the batch of the row being handled
    result,         \* execute_queued_command's return value for that row
    sleep_s,        \* the interval of the processor loop's last sleep
    faults,         \* persistence failures and process deaths so far
    monitored_channels,   \* self.monitored_channels: the ids of the cache's keys
    forwarding_tasks,     \* self.forwarding_tasks: the cache's entries in dict order
    db_forwarding_tasks,  \* the forwarding_tasks table: rows by id (SERIAL)
    messages,       \* new-message events: the handler coroutine of each
    units,          \* delayed copies spawned with asyncio.create_task
    copies,         \* per message and target: the calls of _copy_message_to_target
    ops,            \* channel, task and rule commands executed so far
    emoji_mappings,              \* self.emoji_mappings: symbol -> premium id
    channel_emoji_mappings,      \* self.channel_emoji_mappings: channel -> symbol -> id
    channel_replacement_status,  \* self.channel_replacement_status: channel -> bool
    posts,          \* the channel messages as the platform stores them
    events,         \* message events delivered to the handlers, oldest first
    db_monitored_channels,          \* the monitored_channels table, by channel_id
    db_emoji_replacements,          \* the emoji_replacements table, by normal_emoji
    db_channel_emoji_replacements,  \* channel_emoji_replacements, by (channel, emoji)
    admin_ids,      \* self.admin_ids
    db_bot_admins,  \* the bot_admins table: user_id -> is_active
    reply           \* what the last store operation or command reported

qvars == <<command_queue, qpc, commands, idx, result, sleep_s, faults>>

fvars == <<monitored_channels, forwarding_tasks, db_forwarding_tasks, messages,
           units, copies, ops>>

rvars == <<emoji_mappings, channel_emoji_mappings, channel_replacement_status,
           posts, events>>

svars == <<db_monitored_channels, db_emoji_replacements,
           db_channel_emoji_replacements, admin_ids, db_bot_admins, reply>>

vars == <<command_queue, qpc, commands, idx, result, sleep_s, faults,
          monitored_channels, forwarding_tasks, db_forwarding_tasks, messages,
          units, copies, ops,
          emoji_mappings, channel_emoji_mappings, channel_replacement_status,
          posts, events,
          db_monitored_channels, db_emoji_replacements,
          db_channel_emoji_replacements, admin_ids, db_bot_admins, reply>>

\* ------------------------------------------------------------ the queue
Null == "null"

\* The command names execute_queued_command dispatches on, and one it does not.
KnownCommands == {"list_channels", "remove_channel"}
UnknownCommands == {"no_such_command"}
CommandNames == KnownCommands \cup UnknownCommands

\* What a row's result column can hold.
OutcomeText == "outcome"                 \* the handler's own text
UnknownText == "unknown_command"         \* "❌ أمر غير معروف: {command}"
ExecErrorText == "exec_error"            \* "❌ خطأ في تنفيذ الأمر {command}: {e}"
ProcErrorText == "proc_error"            \* "خطأ في التنفيذ: {error_msg}"
DefaultText == "default_success"         \* "تم تنفيذ الأمر بنجاح"
EmptyText == ""

QueueInit ==
    /\ command_queue = <<>>
    /\ qpc = "sleep"
    /\ commands = <<>>
    /\ idx = 0
    /\ result = Null
    /\ sleep_s = PollInterval
    /\ faults = 0

\* The rows SELECT ... WHERE status = 'pending' ORDER BY created_at LIMIT n returns.
RECURSIVE PendingFrom(_, _)
PendingFrom(q, i) ==
    IF i > Len(q) THEN <<>>
    ELSE IF q[i].status = "pending" THEN <<i>> \o PendingFrom(q, i + 1)
    ELSE PendingFrom(q, i + 1)

\* A SELECT without its LIMIT.
TakeAll(s, n) == s

TakeFirst(s, n) == IF Len(s) <= n THEN s ELSE SubSeq(s, 1, n)

\* The same SELECT without its WHERE clause.
FetchPendingAnyStatus(q) == TakeFirst([i \in 1..Len(q) |-> i], BatchLimit)

FetchPending(q) == TakeFirst(PendingFrom(q, 1), BatchLimit)

\* UPDATE command_queue SET status = s [, result = r] WHERE id = id
SetStatus(q, id, s) == [q EXCEPT ![id].status = s]

SetStatusResult(q, id, s, r) == [q EXCEPT ![id].status = s, ![id].result = r]

\* control_bot.queue_command: INSERT a row; status defaults to 'pending'.
QueueCommand(names, limit) ==
    /\ Len(command_queue) < limit
    /\ \E c \in names :
         command_queue' = Append(command_queue,
                                 [command |-> c, status |-> "pending", result |-> Null])
    /\ UNCHANGED <<qpc, commands, idx, result, sleep_s, faults>>
    /\ UNCHANGED <<fvars, rvars, svars>>

\* The for loop moves to the next row of the batch, or the tick ends and the
\* processor loop sleeps PollInterval.
NextRow ==
    IF idx < Len(commands)
    THEN /\ idx' = idx + 1
         /\ qpc' = "claim"
         /\ UNCHANGED <<commands, sleep_s>>
    ELSE /\ idx' = 0
         /\ qpc' = "sleep"
         /\ commands' = <<>>
         /\ sleep_s' = PollInterval

\* A tick starts: the batch is fetched.
Poll ==
    /\ UNCHANGED <<fvars, rvars, svars>>
    /\ qpc = "sleep"
    /\ LET batch == FetchPending(command_queue) IN
         /\ commands' = batch
         /\ IF batch = <<>>
            THEN /\ qpc' = "sleep" /\ idx' = 0
            ELSE /\ qpc' = "claim" /\ idx' = 1
    /\ sleep_s' = PollInterval
    /\ UNCHANGED <<command_queue, result, faults>>

\* Acquiring the connection or the SELECT raises: the tick's outer handler logs
\* it, process_command_queue returns normally and the loop sleeps PollInterval.
PollFails ==
    /\ UNCHANGED <<fvars, rvars, svars>>
    /\ qpc = "sleep"
    /\ faults < MaxFaults
    /\ faults' = faults + 1
    /\ sleep_s' = PollInterval
    /\ UNCHANGED <<command_queue, qpc, commands, idx, result>>

\* Mark as processing.
MarkProcessing ==
    /\ UNCHANGED <<fvars, rvars, svars>>
    /\ qpc = "claim"
    /\ command_queue' = SetStatus(command_queue, commands[idx], "processing")
    /\ qpc' = "execute"
    /\ UNCHANGED <<commands, idx, result, sleep_s, faults>>

MarkProcessingFails ==
    /\ UNCHANGED <<fvars, rvars, svars>>
    /\ qpc = "claim"
    /\ faults < MaxFaults
    /\ faults' = faults + 1
    /\ qpc' = "mark_failed"
    /\ UNCHANGED <<command_queue, commands, idx, result, sleep_s>>

\* What execute_queued_command returns: the handler's text (which may be
\* empty), the unknown-command text, or, when the handler raises, the text
\* built from the exception.  It never raises itself.
ExecResults(command) ==
    IF command \in KnownCommands
    THEN {OutcomeText, EmptyText, ExecErrorText}
    ELSE {UnknownText}

ExecuteQueuedCommand(outcomes) ==
    /\ UNCHANGED <<fvars, rvars, svars>>
    /\ qpc = "execute"
    /\ \E r \in ExecResults(command_queue[commands[idx]].command) \cap outcomes :
         result' = r
    /\ qpc' = "record"
    /\ UNCHANGED <<command_queue, commands, idx, sleep_s, faults>>

\* result or "تم تنفيذ الأمر بنجاح"
StoredResult(r) == IF r = EmptyText THEN DefaultText ELSE r

RecordCompletedRequeue(q, id, r) == SetStatusResult(q, id, "pending", StoredResult(r))

RecordCompleted(q, id, r) == SetStatusResult(q, id, "completed", StoredResult(r))

MarkCompleted ==
    /\ UNCHANGED <<fvars, rvars, svars>>
    /\ qpc = "record"
    /\ command_queue' = RecordCompleted(command_queue, commands[idx], result)
    /\ result' = Null
    /\ NextRow
    /\ UNCHANGED faults

MarkCompletedFails ==
    /\ UNCHANGED <<fvars, rvars, svars>>
    /\ qpc = "record"
    /\ faults < MaxFaults
    /\ faults' = faults + 1
    /\ qpc' = "mark_failed"
    /\ result' = Null
    /\ UNCHANGED <<command_queue, commands, idx, sleep_s>>

RecordFailedRequeue(q, id) == SetStatusResult(q, id, "pending", ProcErrorText)

\* The row handler's except branch: mark as failed with the error details.
RecordFailed(q, id) == SetStatusResult(q, id, "failed", ProcErrorText)

MarkFailed ==
    /\ UNCHANGED <<fvars, rvars, svars>>
    /\ qpc = "mark_failed"
    /\ command_queue' = RecordFailed(command_queue, commands[idx])
    /\ NextRow
    /\ UNCHANGED <<result, faults>>

\* That update raises too: logged, the row keeps the status it has.
MarkFailedFails ==
    /\ UNCHANGED <<fvars, rvars, svars>>
    /\ qpc = "mark_failed"
    /\ faults < MaxFaults
    /\ faults' = faults + 1
    /\ NextRow
    /\ UNCHANGED <<command_queue, result>>

Consumer(outcomes) ==
    \/ Poll
    \/ PollFails
    \/ MarkProcessing
    \/ MarkProcessingFails
    \/ ExecuteQueuedCommand(outcomes)
    \/ MarkCompleted
    \/ MarkCompletedFails
    \/ MarkFailed
    \/ MarkFailedFails

AllOutcomes == {OutcomeText, EmptyText, ExecErrorText, UnknownText}

\* The process dies and is started again: the table keeps its rows, and
\* start() creates the processor loop anew, at its first tick.
ProcessRestarts ==
    /\ UNCHANGED <<fvars, rvars, svars>>
    /\ faults < MaxFaults
    /\ faults' = faults + 1
    /\ qpc' = "sleep"
    /\ commands' = <<>>
    /\ idx' = 0
    /\ result' = Null
    /\ sleep_s' = PollInterval
    /\ UNCHANGED command_queue

\* The forwarding part as the queue specifications hold it: nothing loaded.
ForwardIdle ==
    /\ monitored_channels = {}
    /\ forwarding_tasks = <<>>
    /\ db_forwarding_tasks = <<>>
    /\ messages = <<>>
    /\ units = {}
    /\ copies = <<>>
    /\ ops = 0

\* No substitution rule is stored and no message event is being handled.
RewriteIdle ==
    /\ emoji_mappings = <<>>
    /\ channel_emoji_mappings = <<>>
    /\ channel_replacement_status = <<>>
    /\ posts = <<>>
    /\ events = <<>>

\* The user ids of this model: the admin __init__ builds in, the account the
\* session belongs to (userbot_admin_id, set in start()), and another user.
DefaultAdmin == "default_admin"
SessionOwner == "session_owner"
Users == {DefaultAdmin, SessionOwner, "user_a"}

\* Empty tables; only the built-in admin.
StoreIdle ==
    /\ db_monitored_channels = <<>>
    /\ db_emoji_replacements = <<>>
    /\ db_channel_emoji_replacements = <<>>
    /\ admin_ids = {DefaultAdmin}
    /\ db_bot_admins = <<>>
    /\ reply = Null

\* The monitored_channels rows of the channels a load found active.
ActiveRows(chans) ==
    [c \in chans |-> [is_active |-> TRUE, replacement_active |-> TRUE]]

Init == QueueInit /\ ForwardIdle /\ RewriteIdle /\ StoreIdle

Next ==
    \/ QueueCommand(CommandNames, MaxRows)
    \/ Consumer(AllOutcomes)
    \/ ProcessRestarts

Spec == Init /\ [][Next]_vars

\* The consumer starts on a backlog the producer left while it was down: one
\* row more than a batch holds.  The event loop keeps scheduling the consumer.
BacklogInit ==
    /\ command_queue = [i \in 1..(BatchLimit + 1) |->
                           [command |-> "list_channels", status |-> "pending",
                            result |-> Null]]
    /\ qpc = "sleep"
    /\ commands = <<>>
    /\ idx = 0
    /\ result = Null
    /\ sleep_s = PollInterval
    /\ faults = 0
    /\ ForwardIdle
    /\ RewriteIdle
    /\ StoreIdle

BacklogNext ==
    \/ QueueCommand({"list_channels"}, MaxBacklog)
    \/ Consumer({OutcomeText})

BacklogSpec ==
    BacklogInit /\ [][BacklogNext]_vars /\ WF_vars(Consumer({OutcomeText}))

\* ------------------------------------------------- the unified consumer
\* UnifiedTelegramBot.process_command_queue (src/unified_telegram_bot.py), the
\* consumer of the deployment that runs both bots in one process.  It keeps
\* the consumer's variables: qpc is "sleep" between ticks and "complete"
\* before the UPDATE of the row at idx.

\* f"Command {command} processed with params: {params}"
PlaceholderText == "processed_with_params"

\* A tick starts: the pending rows are fetched, the oldest ten.
UnifiedPoll ==
    /\ UNCHANGED <<fvars, rvars, svars>>
    /\ qpc = "sleep"
    /\ LET rows == FetchPending(command_queue) IN
         /\ commands' = rows
         /\ IF rows = <<>>
            THEN /\ qpc' = "sleep" /\ idx' = 0
            ELSE /\ qpc' = "complete" /\ idx' = 1
    /\ sleep_s' = PollInterval
    /\ UNCHANGED <<command_queue, result, faults>>

\* Acquiring the connection or the SELECT raises: logged, the loop sleeps.
UnifiedPollFails ==
    /\ UNCHANGED <<fvars, rvars, svars>>
    /\ qpc = "sleep"
    /\ faults < MaxFaults
    /\ faults' = faults + 1
    /\ sleep_s' = PollInterval
    /\ UNCHANGED <<command_queue, qpc, commands, idx, result>>

\* The row's result is built without executing anything and the row is
\* updated to completed; then the next row, or the sleep after the last.
UnifiedMarkCompleted ==
    /\ UNCHANGED <<fvars, rvars, svars>>
    /\ qpc = "complete"
    /\ command_queue' =
          SetStatusResult(command_queue, commands[idx], "completed", PlaceholderText)
    /\ IF idx < Len(commands)
       THEN /\ idx' = idx + 1
            /\ UNCHANGED <<qpc, commands>>
       ELSE /\ idx' = 0
            /\ qpc' = "sleep"
            /\ commands' = <<>>
    /\ sleep_s' = PollInterval
    /\ UNCHANGED <<result, faults>>

\* That UPDATE raises: the loop's except branch logs it and sleeps; the rest
\* of the batch is left for the next tick.
UnifiedMarkCompletedFails ==
    /\ UNCHANGED <<fvars, rvars, svars>>
    /\ qpc = "complete"
    /\ faults < MaxFaults
    /\ faults' = faults + 1
    /\ idx' = 0
    /\ qpc' = "sleep"
    /\ commands' = <<>>
    /\ sleep_s' = PollInterval
    /\ UNCHANGED <<command_queue, result>>

UnifiedNext ==
    \/ QueueCommand(CommandNames, MaxRows)
    \/ UnifiedPoll
    \/ UnifiedPollFails
    \/ UnifiedMarkCompleted
    \/ UnifiedMarkCompletedFails

UnifiedSpec == Init /\ [][UnifiedNext]_vars

\* ------------------------------------------------- the stored result
\* The consumer with the outcome's length in view: an outcome is held by its
\* length in characters, and a stored result by the length of the outcome it
\* was made from (given), its own length, whether it ends with the
\* truncation marker and whether it is the default success text.
OutcomeLengths ==
    {0, 1, TruncateTo, TruncateTo + 1, TruncateOver, TruncateOver + 1, 2 * TruncateOver}

\* execute_queued_command returns a text of some length (0: empty or None).
ExecuteSized ==
    /\ UNCHANGED <<fvars, rvars, svars>>
    /\ qpc = "execute"
    /\ \E n \in OutcomeLengths : result' = [len |-> n]
    /\ qpc' = "record"
    /\ UNCHANGED <<command_queue, commands, idx, sleep_s, faults>>

\* A consumer that stores the outcome as it is.
StoredUncut(r) ==
    [given |-> r.len, len |-> r.len, marked |-> FALSE, default |-> FALSE]

\* Lines 874-880: an outcome of more than 3000 characters is cut to its first
\* 2900 and the marker appended; an empty one is replaced by the default.
StoredSized(r) ==
    IF r.len > TruncateOver
    THEN [given |-> r.len, len |-> TruncateTo + MarkerLen, marked |-> TRUE,
          default |-> FALSE]
    ELSE IF r.len = 0
    THEN [given |-> r.len, len |-> DefaultLen, marked |-> FALSE, default |-> TRUE]
    ELSE [given |-> r.len, len |-> r.len, marked |-> FALSE, default |-> FALSE]

MarkCompletedSized ==
    /\ UNCHANGED <<fvars, rvars, svars>>
    /\ qpc = "record"
    /\ command_queue' =
          SetStatusResult(command_queue, commands[idx], "completed", StoredSized(result))
    /\ result' = Null
    /\ NextRow
    /\ UNCHANGED faults

ResultNext ==
    \/ QueueCommand(KnownCommands, MaxRows)
    \/ Poll
    \/ MarkProcessing
    \/ ExecuteSized
    \/ MarkCompletedSized

ResultSpec == Init /\ [][ResultNext]_vars

\* -------------------------------------------------------------- forwarding
\* Channel ids, and the delay_seconds a task can hold (0: copy at once).
Channels == {10, 20, 30}
Delays == {0, 2}

\* A row of the forwarding_tasks table: UNIQUE (source_channel_id,
\* target_channel_id); cmd_add_forwarding_task refuses source = target.
TaskRows ==
    {r \in [source : Channels, target : Channels, is_active : BOOLEAN, delay : Delays] :
        r.source # r.target}

TaskTables ==
    UNION {{t \in [1..n -> TaskRows] :
               \A i, j \in 1..n :
                   i # j => <<t[i].source, t[i].target>> # <<t[j].source, t[j].target>>} :
           n \in 0..MaxTasks}

\* The cache entry load_forwarding_tasks and add_forwarding_task build.
Entry(id, row) ==
    [id |-> id, source |-> row.source, target |-> row.target,
     active |-> row.is_active, delay |-> row.delay]

Orders(S) ==
    {f \in [1..Cardinality(S) -> S] :
        \A i, j \in 1..Cardinality(S) : i # j => f[i] # f[j]}

\* load_forwarding_tasks: the rows WHERE is_active = TRUE become the cache, in
\* the order the SELECT (which has no ORDER BY) returns them.
LoadForwardingTasks(db) ==
    {[k \in 1..Len(o) |-> Entry(o[k], db[o[k]])] :
        o \in Orders({i \in 1..Len(db) : db[i].is_active})}

CachePos(cache, id) == {k \in 1..Len(cache) : cache[k].id = id}

\* self.forwarding_tasks.pop(task_id, None)
CachePop(cache, id) == SelectSeq(cache, LAMBDA e : e.id # id)

\* self.forwarding_tasks[task_id] = entry: a present key keeps its place.
CachePut(cache, entry) ==
    IF CachePos(cache, entry.id) = {}
    THEN Append(cache, entry)
    ELSE [k \in 1..Len(cache) |-> IF cache[k].id = entry.id THEN entry ELSE cache[k]]

NoCopies ==
    [k \in (1..MaxMsgs) \X Channels |->
        [calls |-> 0, sends |-> 0, ended |-> 0, failed |-> FALSE, delayed |-> FALSE]]

\* The caches after init_database, over the tables a deployment can hold.
InitDatabase ==
    /\ monitored_channels \in SUBSET Channels
    /\ db_forwarding_tasks \in TaskTables
    /\ forwarding_tasks \in LoadForwardingTasks(db_forwarding_tasks)
    /\ messages = <<>>
    /\ units = {}
    /\ copies = NoCopies
    /\ ops = 0
    /\ channel_replacement_status = [c \in monitored_channels |-> TRUE]
    /\ db_monitored_channels = ActiveRows(monitored_channels)
    /\ db_emoji_replacements = <<>>
    /\ db_channel_emoji_replacements = <<>>
    /\ admin_ids = {DefaultAdmin}
    /\ db_bot_admins = <<>>
    /\ reply = Null

\* forward_message_to_targets, lines 385-390: the active tasks of this source
\* whose target is monitored, in the cache's order.
SelectAny(cache, monitored, source) ==
    SelectSeq(cache, LAMBDA t : t.source = source /\ t.active)

ActiveTasks(cache, monitored, source) ==
    SelectSeq(cache, LAMBDA t : t.source = source /\ t.active /\ t.target \in monitored)

\* The first task from position i on that is copied at once (delay 0).
RECURSIVE NextImmediate(_, _)
NextImmediate(tasks, i) ==
    IF i > Len(tasks) THEN i
    ELSE IF tasks[i].delay > 0 THEN NextImmediate(tasks, i + 1)
    ELSE i

\* _copy_message_to_target is entered and issues its first send.
StartCopy(cp, m, t, delayed) ==
    [cp EXCEPT ![<<m, t>>].calls = @ + 1, ![<<m, t>>].sends = @ + 1,
               ![<<m, t>>].delayed = delayed]

\* Where the first send of a copy stands.  With markdown syntax in the content
\* the send sits in the try block that also parses: "sending_try", and a
\* failure there leads to the fallback send.  Without it, or when the parse
\* raised and the fallback is the first send, a failure ends the copy.
SendStates(md) == IF md THEN {"sending_try", "sending_last"} ELSE {"sending_last"}

SpawnNothing(m, tasks, i, j) == {}

\* asyncio.create_task(self._delayed_copy_message(...)) for the tasks at
\* positions i..j-1, all of them delayed.
CreateTasks(m, tasks, i, j) ==
    {[msg |-> m, id |-> tasks[k].id, target |-> tasks[k].target, pc |-> "sleeping",
      stale |-> FALSE] :
        k \in i..(j - 1)}

\* The for loop of forward_message_to_targets from position i up to its next
\* suspension: delayed tasks are spawned as units, the first immediate one is
\* awaited; past the last task the handler is done.
RunLoop(m, tasks, i, cp) ==
    LET j == NextImmediate(tasks, i)
    IN  /\ units' = units \cup CreateTasks(m, tasks, i, j)
        /\ IF j <= Len(tasks)
           THEN /\ \E st \in SendStates(messages[m].md) :
                     messages' = [messages EXCEPT ![m].tasks = tasks, ![m].i = j,
                                                  ![m].pc = st]
                /\ copies' = StartCopy(cp, m, tasks[j].target, FALSE)
           ELSE /\ messages' = [messages EXCEPT ![m].tasks = tasks, ![m].i = j,
                                                ![m].pc = "done"]
                /\ copies' = cp

\* events.NewMessage in channel c; md: the content holds markdown syntax.  The
\* handler returns at once unless the channel is monitored; otherwise it is
\* suspended in the rewrite, the sleep and the re-fetch (lines 4691-4722).
NewMessage ==
    /\ Len(messages) < MaxMsgs
    /\ \E c \in Channels, md \in BOOLEAN :
         messages' = Append(messages,
                            [chan |-> c, md |-> md,
                             pc |-> IF c \in monitored_channels THEN "wait" ELSE "ignored",
                             tasks |-> <<>>, i |-> 0])
    /\ UNCHANGED <<monitored_channels, forwarding_tasks, db_forwarding_tasks, units,
                   copies, ops>>
    /\ UNCHANGED <<qvars, rvars, svars>>

ForwardMessageToTargets ==
    /\ \E m \in 1..Len(messages) :
         /\ messages[m].pc = "wait"
         /\ RunLoop(m, ActiveTasks(forwarding_tasks, monitored_channels,
                                   messages[m].chan), 1, copies)
    /\ UNCHANGED <<monitored_channels, forwarding_tasks, db_forwarding_tasks, ops>>
    /\ UNCHANGED <<qvars, rvars, svars>>

\* The copy's send returned or raised.
EndCopy(cp, m, t, ok) ==
    [cp EXCEPT ![<<m, t>>].ended = @ + 1,
               ![<<m, t>>].failed = IF ok THEN @ ELSE TRUE]

\* The fallback send in the except branch of the parsing try block.
Resend(cp, m, t) == [cp EXCEPT ![<<m, t>>].sends = @ + 1]

\* The awaited send of an immediate copy returns or raises.
CopyReturns ==
    /\ \E m \in 1..Len(messages), ok \in BOOLEAN :
         LET h == messages[m]
             t == h.tasks[h.i].target
         IN  /\ h.pc \in {"sending_try", "sending_last"}
             /\ IF ok \/ h.pc = "sending_last"
                THEN RunLoop(m, h.tasks, h.i + 1, EndCopy(copies, m, t, ok))
                ELSE /\ messages' = [messages EXCEPT ![m].pc = "sending_last"]
                     /\ copies' = Resend(copies, m, t)
                     /\ UNCHANGED units
    /\ UNCHANGED <<monitored_channels, forwarding_tasks, db_forwarding_tasks, ops>>
    /\ UNCHANGED <<qvars, rvars, svars>>

\* The unit's task is still cached as active and its target still monitored.
TaskStands(u) ==
    /\ u.target \in monitored_channels
    /\ \E k \in 1..Len(forwarding_tasks) :
          forwarding_tasks[k].id = u.id /\ forwarding_tasks[k].active

\* A unit that looks at its task again after the sleep and gives up.
WakeChecked(u, st) ==
    IF TaskStands(u) THEN [u EXCEPT !.pc = st] ELSE [u EXCEPT !.pc = "cancelled"]

\* _delayed_copy_message after asyncio.sleep: it goes on to
\* _copy_message_to_target with the arguments it was created with.  stale
\* records whether its task stood no longer at that moment.
Wake(u, st) == [u EXCEPT !.pc = st, !.stale = ~TaskStands(u)]

\* _delayed_copy_message: the sleep is over, the copy starts.
DelayedCopyStarts ==
    /\ \E u \in units :
         /\ u.pc = "sleeping"
         /\ \E st \in SendStates(messages[u.msg].md) :
              units' = (units \ {u}) \cup {Wake(u, st)}
         /\ copies' = StartCopy(copies, u.msg, u.target, TRUE)
    /\ UNCHANGED <<monitored_channels, forwarding_tasks, db_forwarding_tasks, messages,
                   ops>>
    /\ UNCHANGED <<qvars, rvars, svars>>

DelayedCopyReturns ==
    /\ \E u \in units, ok \in BOOLEAN :
         /\ u.pc \in {"sending_try", "sending_last"}
         /\ IF ok \/ u.pc = "sending_last"
            THEN /\ units' = units \ {u}
                 /\ copies' = EndCopy(copies, u.msg, u.target, ok)
            ELSE /\ units' = (units \ {u}) \cup {[u EXCEPT !.pc = "sending_last"]}
                 /\ copies' = Resend(copies, u.msg, u.target)
    /\ UNCHANGED <<monitored_channels, forwarding_tasks, db_forwarding_tasks, messages,
                   ops>>
    /\ UNCHANGED <<qvars, rvars, svars>>

\* ------------------------------------------------------- persisted store
\* Each store operation below is the function of that name: what it writes
\* to its table, what it then does to its cache, and what it returns
\* (reply).  out is how its persistence calls end: "ok", or "fail" when the
\* call raises.
\* dict[key] = value
Put(map, key, value) ==
    [x \in DOMAIN map \cup {key} |-> IF x = key THEN value ELSE map[x]]

\* The map without these keys (dict.pop, del, DELETE ... WHERE).
Without(map, keys) == [x \in DOMAIN map \ keys |-> map[x]]

Returned(success) == IF success THEN "ok" ELSE "failed"

add_monitored_channel(c, out) ==
    /\ reply' = Returned(out = "ok")
    /\ IF out = "ok"
       THEN /\ db_monitored_channels' =
                  Put(db_monitored_channels, c,
                      [is_active |-> TRUE,
                       replacement_active |->
                           IF c \in DOMAIN db_monitored_channels
                           THEN db_monitored_channels[c].replacement_active
                           ELSE TRUE])
            /\ monitored_channels' = monitored_channels \cup {c}
            /\ channel_replacement_status' =
                  IF c \in DOMAIN channel_replacement_status
                  THEN channel_replacement_status
                  ELSE Put(channel_replacement_status, c, TRUE)
       ELSE UNCHANGED <<db_monitored_channels, monitored_channels,
                        channel_replacement_status>>

\* A DELETE without its WHERE clause.
EveryRuleKey(c) == DOMAIN db_channel_emoji_replacements

\* DELETE FROM channel_emoji_replacements WHERE channel_id = c
ChannelRuleKeys(c) == {k \in DOMAIN db_channel_emoji_replacements : k[1] = c}

\* remove_monitored_channel: two statements on one connection, outside any
\* transaction.  "fail": the DELETE raises; "fail_late": the UPDATE raises.
\* The caches change only when the UPDATE reports one row.
remove_monitored_channel(c, out) ==
    LET updated == out = "ok" /\ c \in DOMAIN db_monitored_channels
    IN  /\ reply' = Returned(updated)
        /\ db_channel_emoji_replacements' =
              IF out = "fail" THEN db_channel_emoji_replacements
              ELSE Without(db_channel_emoji_replacements, ChannelRuleKeys(c))
        /\ IF updated
           THEN /\ db_monitored_channels' =
                      [db_monitored_channels EXCEPT ![c].is_active = FALSE]
                /\ monitored_channels' = monitored_channels \ {c}
                /\ channel_emoji_mappings' = Without(channel_emoji_mappings, {c})
           ELSE UNCHANGED <<db_monitored_channels, monitored_channels,
                            channel_emoji_mappings>>

add_emoji_replacement(emoji, id, out) ==
    /\ reply' = Returned(out = "ok")
    /\ IF out = "ok"
       THEN /\ db_emoji_replacements' = Put(db_emoji_replacements, emoji, id)
            /\ emoji_mappings' = Put(emoji_mappings, emoji, id)
       ELSE UNCHANGED <<db_emoji_replacements, emoji_mappings>>

delete_emoji_replacement(emoji, out) ==
    LET deleted == out = "ok" /\ emoji \in DOMAIN db_emoji_replacements
    IN  /\ reply' = Returned(deleted)
        /\ IF deleted
           THEN /\ db_emoji_replacements' = Without(db_emoji_replacements, {emoji})
                /\ emoji_mappings' = Without(emoji_mappings, {emoji})
           ELSE UNCHANGED <<db_emoji_replacements, emoji_mappings>>

\* Returns the count it read before the DELETE, 0 when a call raises; the
\* command reports success for a count above 0.
delete_all_emoji_replacements(out) ==
    /\ reply' = Returned(out = "ok" /\ DOMAIN db_emoji_replacements # {})
    /\ IF out = "ok"
       THEN /\ db_emoji_replacements' = <<>>
            /\ emoji_mappings' = <<>>
       ELSE UNCHANGED <<db_emoji_replacements, emoji_mappings>>

add_channel_emoji_replacement(c, emoji, id, out) ==
    /\ reply' = Returned(out = "ok")
    /\ IF out = "ok"
       THEN /\ db_channel_emoji_replacements' =
                  Put(db_channel_emoji_replacements, <<c, emoji>>, id)
            /\ channel_emoji_mappings' =
                  Put(channel_emoji_mappings, c,
                      Put(IF c \in DOMAIN channel_emoji_mappings
                          THEN channel_emoji_mappings[c] ELSE <<>>,
                          emoji, id))
       ELSE UNCHANGED <<db_channel_emoji_replacements, channel_emoji_mappings>>

\* The channel's dict loses the symbol, and leaves the cache when it is empty.
PopChannelRule(cache, c, emoji) ==
    IF c \notin DOMAIN cache THEN cache
    ELSE LET rest == Without(cache[c], {emoji})
         IN  IF DOMAIN rest = {} THEN Without(cache, {c}) ELSE Put(cache, c, rest)

delete_channel_emoji_replacement(c, emoji, out) ==
    LET deleted == out = "ok" /\ <<c, emoji>> \in DOMAIN db_channel_emoji_replacements
    IN  /\ reply' = Returned(deleted)
        /\ IF deleted
           THEN /\ db_channel_emoji_replacements' =
                      Without(db_channel_emoji_replacements, {<<c, emoji>>})
                /\ channel_emoji_mappings' =
                      PopChannelRule(channel_emoji_mappings, c, emoji)
           ELSE UNCHANGED <<db_channel_emoji_replacements, channel_emoji_mappings>>

delete_all_channel_emoji_replacements(c, out) ==
    /\ reply' = Returned(out = "ok" /\ ChannelRuleKeys(c) # {})
    /\ IF out = "ok"
       THEN /\ db_channel_emoji_replacements' =
                  Without(db_channel_emoji_replacements, ChannelRuleKeys(c))
            /\ channel_emoji_mappings' = Without(channel_emoji_mappings, {c})
       ELSE UNCHANGED <<db_channel_emoji_replacements, channel_emoji_mappings>>

\* cmd_activate_channel_replacement / cmd_deactivate_channel_replacement,
\* past the check that the channel is monitored: the UPDATE, then the cache.
set_channel_replacement(c, flag, out) ==
    /\ reply' = Returned(out = "ok")
    /\ IF out = "ok"
       THEN /\ db_monitored_channels' =
                  IF c \in DOMAIN db_monitored_channels
                  THEN [db_monitored_channels EXCEPT ![c].replacement_active = flag]
                  ELSE db_monitored_channels
            /\ channel_replacement_status' = Put(channel_replacement_status, c, flag)
       ELSE UNCHANGED <<db_monitored_channels, channel_replacement_status>>

add_admin(u, out) ==
    /\ reply' = Returned(out = "ok")
    /\ IF out = "ok"
       THEN /\ db_bot_admins' = Put(db_bot_admins, u, TRUE)
            /\ admin_ids' = admin_ids \cup {u}
       ELSE UNCHANGED <<db_bot_admins, admin_ids>>

\* The built-in admin is refused before any persistence call.
remove_admin(u, out) ==
    LET updated == u # DefaultAdmin /\ out = "ok" /\ u \in DOMAIN db_bot_admins
    IN  /\ reply' = Returned(updated)
        /\ IF updated
           THEN /\ db_bot_admins' = Put(db_bot_admins, u, FALSE)
                /\ admin_ids' = admin_ids \ {u}
           ELSE UNCHANGED <<db_bot_admins, admin_ids>>

\* A plain INSERT, which finds no row to update.
NoPair(db, s, t) == {}

\* ON CONFLICT (source_channel_id, target_channel_id): the pair's row.
PairIds(db, s, t) == {i \in 1..Len(db) : db[i].source = s /\ db[i].target = t}

\* The cached entry of this id with its active flag set.
SetActive(cache, id, flag) ==
    [k \in 1..Len(cache) |->
        IF cache[k].id = id THEN [cache[k] EXCEPT !.active = flag] ELSE cache[k]]

\* The upsert returns the id of the pair's row, new or kept.
add_forwarding_task(s, t, d, out) ==
    LET row == [source |-> s, target |-> t, is_active |-> TRUE, delay |-> d]
        old == PairIds(db_forwarding_tasks, s, t)
        id == IF old = {} THEN Len(db_forwarding_tasks) + 1 ELSE CHOOSE i \in old : TRUE
    IN  /\ reply' = Returned(out = "ok")
        /\ IF out = "ok"
           THEN /\ db_forwarding_tasks' =
                      IF old = {} THEN Append(db_forwarding_tasks, row)
                      ELSE [db_forwarding_tasks EXCEPT ![id] = row]
                /\ forwarding_tasks' = CachePut(forwarding_tasks, Entry(id, row))
           ELSE UNCHANGED <<db_forwarding_tasks, forwarding_tasks>>

delete_forwarding_task(id, out) ==
    LET updated == out = "ok" /\ id \in 1..Len(db_forwarding_tasks)
    IN  /\ reply' = Returned(updated)
        /\ IF updated
           THEN /\ db_forwarding_tasks' =
                      [db_forwarding_tasks EXCEPT ![id].is_active = FALSE]
                /\ forwarding_tasks' = CachePop(forwarding_tasks, id)
           ELSE UNCHANGED <<db_forwarding_tasks, forwarding_tasks>>

\* "fail": the UPDATE raises.  "fail_late": the UPDATE is done and the
\* reload of an uncached task fails inside load_forwarding_tasks, which logs
\* it and returns; activate_forwarding_task then returns True.
activate_forwarding_task(id, out) ==
    LET updated == out # "fail" /\ id \in 1..Len(db_forwarding_tasks)
        db == [db_forwarding_tasks EXCEPT ![id].is_active = TRUE]
    IN  /\ reply' = Returned(updated)
        /\ IF updated
           THEN /\ db_forwarding_tasks' = db
                /\ IF CachePos(forwarding_tasks, id) # {}
                   THEN forwarding_tasks' = SetActive(forwarding_tasks, id, TRUE)
                   ELSE IF out = "ok"
                        THEN forwarding_tasks' \in LoadForwardingTasks(db)
                        ELSE UNCHANGED forwarding_tasks
           ELSE UNCHANGED <<db_forwarding_tasks, forwarding_tasks>>

\* The cached entry stays, marked inactive.
deactivate_forwarding_task(id, out) ==
    LET updated == out = "ok" /\ id \in 1..Len(db_forwarding_tasks)
    IN  /\ reply' = Returned(updated)
        /\ IF updated
           THEN /\ db_forwarding_tasks' =
                      [db_forwarding_tasks EXCEPT ![id].is_active = FALSE]
                /\ forwarding_tasks' = SetActive(forwarding_tasks, id, FALSE)
           ELSE UNCHANGED <<db_forwarding_tasks, forwarding_tasks>>

\* add_monitored_channel: the channel is stored and cached, and its
\* replacement status set to on unless it has one.
AddMonitoredChannel ==
    /\ ops < MaxOps
    /\ \E c \in Channels : add_monitored_channel(c, "ok")
    /\ ops' = ops + 1
    /\ UNCHANGED <<forwarding_tasks, db_forwarding_tasks, messages, units, copies>>
    /\ UNCHANGED <<emoji_mappings, channel_emoji_mappings, posts, events>>
    /\ UNCHANGED <<db_emoji_replacements, db_channel_emoji_replacements, admin_ids,
                   db_bot_admins>>
    /\ UNCHANGED qvars

\* handle_remove_channel_command / remove_monitored_channel: the channel and
\* its own rules leave the store and the caches; forwarding tasks are left as
\* they are.
RemoveMonitoredChannel ==
    /\ ops < MaxOps
    /\ \E c \in monitored_channels : remove_monitored_channel(c, "ok")
    /\ ops' = ops + 1
    /\ UNCHANGED <<forwarding_tasks, db_forwarding_tasks, messages, units, copies>>
    /\ UNCHANGED <<emoji_mappings, channel_replacement_status, posts, events>>
    /\ UNCHANGED <<db_emoji_replacements, admin_ids, db_bot_admins>>
    /\ UNCHANGED qvars

\* What the forwarding-task operations leave alone.
TaskFrame ==
    /\ UNCHANGED <<monitored_channels, messages, units, copies>>
    /\ UNCHANGED <<db_monitored_channels, db_emoji_replacements,
                   db_channel_emoji_replacements, admin_ids, db_bot_admins>>
    /\ UNCHANGED <<qvars, rvars>>

\* cmd_add_forwarding_task, past its checks, and add_forwarding_task.
AddForwardingTask ==
    /\ ops < MaxOps
    /\ \E s \in monitored_channels, t \in monitored_channels, d \in Delays :
         /\ s # t
         /\ PairIds(db_forwarding_tasks, s, t) = {} => Len(db_forwarding_tasks) < MaxTasks
         /\ add_forwarding_task(s, t, d, "ok")
    /\ ops' = ops + 1
    /\ TaskFrame

\* delete_forwarding_task, behind its callers' check that the id is cached.
DeleteForwardingTask ==
    /\ ops < MaxOps
    /\ \E k \in 1..Len(forwarding_tasks) :
         delete_forwarding_task(forwarding_tasks[k].id, "ok")
    /\ ops' = ops + 1
    /\ TaskFrame

\* activate_forwarding_task on an existing row; cmd_activate_forwarding_task
\* reloads the cache after it in any case (reload).
ActivateForwardingTask ==
    /\ ops < MaxOps
    /\ \E id \in 1..Len(db_forwarding_tasks), reload \in BOOLEAN :
         IF reload
         THEN /\ db_forwarding_tasks' = [db_forwarding_tasks EXCEPT ![id].is_active = TRUE]
              /\ forwarding_tasks' \in LoadForwardingTasks(db_forwarding_tasks')
              /\ reply' = "ok"
         ELSE activate_forwarding_task(id, "ok")
    /\ ops' = ops + 1
    /\ TaskFrame

\* deactivate_forwarding_task on an existing row.
DeactivateForwardingTask ==
    /\ ops < MaxOps
    /\ \E id \in 1..Len(db_forwarding_tasks) : deactivate_forwarding_task(id, "ok")
    /\ ops' = ops + 1
    /\ TaskFrame

ForwardNext ==
    \/ NewMessage
    \/ ForwardMessageToTargets
    \/ CopyReturns
    \/ DelayedCopyStarts
    \/ DelayedCopyReturns
    \/ AddMonitoredChannel
    \/ RemoveMonitoredChannel
    \/ AddForwardingTask
    \/ DeleteForwardingTask
    \/ ActivateForwardingTask
    \/ DeactivateForwardingTask

ForwardInit ==
    /\ QueueInit
    /\ InitDatabase
    /\ emoji_mappings = <<>>
    /\ channel_emoji_mappings = <<>>
    /\ posts = <<>>
    /\ events = <<>>

ForwardSpec == ForwardInit /\ [][ForwardNext]_vars

\* Message handling alone, with no channel or task command in between.
FanOutNext ==
    \/ NewMessage
    \/ ForwardMessageToTargets
    \/ CopyReturns
    \/ DelayedCopyStarts
    \/ DelayedCopyReturns

\* Every send returns or raises, every sleep ends, the handler is resumed.
FanOutSpec ==
    /\ ForwardInit
    /\ [][FanOutNext]_vars
    /\ WF_vars(ForwardMessageToTargets)
    /\ WF_vars(CopyReturns)
    /\ WF_vars(DelayedCopyStarts)
    /\ WF_vars(DelayedCopyReturns)

\* ---------------------------------------------------------------- rewriting
\* A text is a sequence of characters.  "a" is a letter, "F" a pictograph
\* outside the basic plane (U+1F525), "K" the heavy check mark U+2714, "D" the
\* gem U+1F48E, "VS" the variation selector U+FE0F; "[" is itself, and "]1",
\* "]2" stand for the character runs "](emoji/1)" and "](emoji/2)".
Ids == {1, 2}
CloseTok(id) == IF id = 1 THEN "]1" ELSE "]2"
CloseToks == {CloseTok(id) : id \in Ids}
CloseId(ch) == CHOOSE id \in Ids : CloseTok(id) = ch
TextChars == {"a", "F", "K", "VS"}

RECURSIVE SeqsUpTo(_, _)
SeqsUpTo(S, n) ==
    IF n = 0 THEN {<<>>}
    ELSE LET shorter == SeqsUpTo(S, n - 1)
         IN  shorter \cup {Append(t, c) : t \in shorter, c \in S}

\* "[💎](emoji/1)", typed by the poster.
Sentinel == <<"[", "D", CloseTok(1)>>

\* The posted texts: plain ones, and ones that begin with the sentinel.
Texts ==
    SeqsUpTo(TextChars, MaxLen) \cup {Sentinel \o t : t \in SeqsUpTo(TextChars, MaxLen - 2)}

\* The character class of emoji_pattern, lines 1414-1468, on these characters.
BaseChars == {"F", "K", "D"}
\* The keys of fallback_symbols, lines 1534-1558.
FallbackSymbols == {"K"}
\* The symbols that rule commands name in this model.
RuleSymbols == {<<"F">>, <<"K">>, <<"K", "VS">>}

\* Length in UTF-16 code units, the unit of entity offsets.
Utf16Char(ch) ==
    IF ch \in {"F", "D"} THEN 2
    ELSE IF ch \in CloseToks THEN 10
    ELSE 1

RECURSIVE Utf16Len(_)
Utf16Len(t) == IF t = <<>> THEN 0 ELSE Utf16Char(Head(t)) + Utf16Len(Tail(t))

Range(f) == {f[x] : x \in DOMAIN f}

\* The length of emoji_pattern's match at position i, 0 if there is none: a
\* base character, an optional variation selector, and optionally a joiner, a
\* second base character and its variation selector.
MatchLen(text, i) ==
    IF text[i] \notin BaseChars THEN 0
    ELSE LET a == IF i + 1 <= Len(text) /\ text[i + 1] = "VS" THEN 1 ELSE 0
             p == i + 1 + a
             b == IF p + 1 <= Len(text) /\ text[p] = "ZWJ" /\ text[p + 1] \in BaseChars
                  THEN 2 + (IF p + 2 <= Len(text) /\ text[p + 2] = "VS" THEN 1 ELSE 0)
                  ELSE 0
         IN  1 + a + b

\* emoji_pattern.findall(text)
RECURSIVE FindAll(_, _)
FindAll(text, i) ==
    IF i > Len(text) THEN <<>>
    ELSE LET n == MatchLen(text, i)
         IN  IF n = 0 THEN FindAll(text, i + 1)
             ELSE <<SubSeq(text, i, i + n - 1)>> \o FindAll(text, i + n)

\* Lines 1561-1564: a fallback character that is not itself in the list is
\* appended.
RECURSIVE Fallback(_, _, _)
Fallback(found, text, i) ==
    IF i > Len(text) THEN found
    ELSE IF text[i] \in FallbackSymbols /\ <<text[i]>> \notin Range(found)
         THEN Fallback(Append(found, <<text[i]>>), text, i + 1)
         ELSE Fallback(found, text, i + 1)

\* Lines 1567-1572: first occurrences, in order.
RECURSIVE Unique(_, _)
Unique(found, seen) ==
    IF found = <<>> THEN <<>>
    ELSE IF Head(found) \in seen THEN Unique(Tail(found), seen)
         ELSE <<Head(found)>> \o Unique(Tail(found), seen \cup {Head(found)})

extract_emojis_from_text(text) == Unique(Fallback(FindAll(text, 1), text, 1), {})

\* "[💎](emoji/" in original_text
HasSentinel(text) ==
    \E i \in 1..(Len(text) - 2) :
        text[i] = "[" /\ text[i + 1] = "D" /\ text[i + 2] \in CloseToks

\* hasattr(entity, 'document_id')
IsCustomEmoji(e) == e.kind = "custom_emoji"

SentinelOnly(text, entities) == HasSentinel(text)

\* The guard of lines 1593-1596.
AlreadyProcessed(text, entities) ==
    \/ HasSentinel(text)
    \/ \E k \in 1..Len(entities) : IsCustomEmoji(entities[k])

GlobalFirst(peer, emoji) ==
    IF emoji \in DOMAIN emoji_mappings THEN emoji_mappings[emoji]
    ELSE IF peer \in DOMAIN channel_emoji_mappings
            /\ emoji \in DOMAIN channel_emoji_mappings[peer]
    THEN channel_emoji_mappings[peer][emoji]
    ELSE 0

\* Lines 1627-1639: the channel's own rule, else the global rule, else none (0).
Resolve(peer, emoji) ==
    IF peer \in DOMAIN channel_emoji_mappings
       /\ emoji \in DOMAIN channel_emoji_mappings[peer]
    THEN channel_emoji_mappings[peer][emoji]
    ELSE IF emoji \in DOMAIN emoji_mappings THEN emoji_mappings[emoji]
    ELSE 0

\* emojis_to_replace, in insertion order: the found symbols that have a rule.
EmojisToReplace(peer, found) ==
    LET ruled == SelectSeq(found, LAMBDA e : Resolve(peer, e) # 0)
    IN  [k \in 1..Len(ruled) |-> [emoji |-> ruled[k], id |-> Resolve(peer, ruled[k])]]

Matches(text, i, sym) ==
    /\ i + Len(sym) - 1 <= Len(text)
    /\ SubSeq(text, i, i + Len(sym) - 1) = sym

\* re.sub(re.escape(sym), repl, text): the occurrences from the left, not
\* overlapping.
RECURSIVE ReSub(_, _, _, _)
ReSub(text, i, sym, repl) ==
    IF i > Len(text) THEN <<>>
    ELSE IF Matches(text, i, sym) THEN repl \o ReSub(text, i + Len(sym), sym, repl)
    ELSE <<text[i]>> \o ReSub(text, i + 1, sym, repl)

\* Lines 1643-1655: one substitution pass per symbol, each over the text the
\* passes before it produced.
RECURSIVE ModifiedText(_, _)
ModifiedText(text, todo) ==
    IF todo = <<>> THEN text
    ELSE LET e == Head(todo)
             markdown == <<"[">> \o e.emoji \o <<CloseTok(e.id)>>
         IN  ModifiedText(ReSub(text, 1, e.emoji, markdown), Tail(todo))

CustomEmoji(offset, length, id) ==
    [kind |-> "custom_emoji", offset |-> offset, length |-> length, document_id |-> id]

\* The positions after i that close a link opened at i: a closing run with a
\* label of at least one character before it.
Closers(text, i) == {j \in (i + 2)..Len(text) : text[j] \in CloseToks}

Min(S) == CHOOSE x \in S : \A y \in S : x <= y

\* CustomParseMode.parse: "[label](emoji/id)" becomes the label with a custom
\* emoji entity of that id over it, at the label's UTF-16 offset in the
\* parsed text; every other character stays.
RECURSIVE ParseFrom(_, _, _, _)
ParseFrom(text, i, out, ents) ==
    IF i > Len(text) THEN [text |-> out, entities |-> ents]
    ELSE IF text[i] = "[" /\ Closers(text, i) # {}
    THEN LET j == Min(Closers(text, i))
             label == SubSeq(text, i + 1, j - 1)
         IN  ParseFrom(text, j + 1, out \o label,
                       Append(ents, CustomEmoji(Utf16Len(out), Utf16Len(label),
                                                CloseId(text[j]))))
    ELSE ParseFrom(text, i + 1, Append(out, text[i]), ents)

Parse(text) == ParseFrom(text, 1, <<>>, <<>>)

\* list.sort(key=lambda e: e.offset): stable.
RECURSIVE SortByOffset(_)
SortByOffset(ents) ==
    IF ents = <<>> THEN <<>>
    ELSE LET lo == Min({ents[k].offset : k \in 1..Len(ents)})
             first == Min({k \in 1..Len(ents) : ents[k].offset = lo})
         IN  <<ents[first]>> \o
             SortByOffset(SubSeq(ents, 1, first - 1) \o SubSeq(ents, first + 1, Len(ents)))

\* The same merge without its sort.
MergedUnsorted(entities, new_entities) ==
    SelectSeq(entities, LAMBDA e : ~IsCustomEmoji(e))
        \o SelectSeq(new_entities, IsCustomEmoji)

\* Lines 1674-1691: the message's entities other than custom emoji, then the
\* custom emoji entities of the parse, by offset.
FinalEntities(entities, new_entities) ==
    SortByOffset(SelectSeq(entities, LAMBDA e : ~IsCustomEmoji(e))
                 \o SelectSeq(new_entities, IsCustomEmoji))

CustomTriples(ents) ==
    LET c == SelectSeq(ents, IsCustomEmoji)
    IN  [k \in 1..Len(c) |-> <<c[k].offset, c[k].length, c[k].document_id>>]

\* Lines 1693-1722.
ShouldEdit(entities, new_entities, final_entities) ==
    /\ SelectSeq(new_entities, IsCustomEmoji) # <<>>
    /\ entities # <<>> => CustomTriples(entities) # CustomTriples(final_entities)

\* A rewrite that does not look at the channel's flag.
ReplacementAlwaysEnabled(peer) == TRUE

\* self.channel_replacement_status.get(event_peer_id, True)
ReplacementEnabled(peer) ==
    IF peer \in DOMAIN channel_replacement_status
    THEN channel_replacement_status[peer]
    ELSE TRUE

\* A rewrite without its early returns: it parses and edits whatever it gets.
RewriteUnguarded(peer, text, entities) ==
    LET parsed == Parse(text)
    IN  [changed |-> TRUE, text |-> parsed.text,
         entities |-> FinalEntities(entities, parsed.entities)]

\* replace_emojis_in_message up to its edit_message call, for a parse that
\* succeeds: whether the message is edited, and to what.
Rewrite(peer, text, entities) ==
    LET found == extract_emojis_from_text(text)
        todo == EmojisToReplace(peer, found)
        parsed == Parse(ModifiedText(text, todo))
        final == FinalEntities(entities, parsed.entities)
    IN  IF \/ text = <<>>
           \/ AlreadyProcessed(text, entities)
           \/ found = <<>>
           \/ ~ReplacementEnabled(peer)
           \/ todo = <<>>
           \/ ~ShouldEdit(entities, parsed.entities, final)
        THEN [changed |-> FALSE, text |-> text, entities |-> entities]
        ELSE [changed |-> TRUE, text |-> parsed.text, entities |-> final]

\* Lines 1587-1641: the rewrite gets as far as parse_mode.parse.
ReachesParse(peer, text, entities) ==
    /\ text # <<>>
    /\ ~AlreadyProcessed(text, entities)
    /\ ReplacementEnabled(peer)
    /\ EmojisToReplace(peer, extract_emojis_from_text(text)) # <<>>

\* A rewrite that goes on to its edit after a parse that raised.
EditDespiteParseError(r, parse_ok) == r.changed

\* Lines 1661-1669 and 1724-1733: edit_message is called when the parse
\* returned and the entities it gave call for an edit.
EditCalled(r, parse_ok) == r.changed /\ parse_ok

\* The entities a posted text can carry: none, or one: an underline over its
\* first or its last character, or a custom emoji of the poster's own over
\* its first.
PostedEntities(text) ==
    {<<>>} \cup
    (IF text = <<>> THEN {}
     ELSE {<<[kind |-> "underline", offset |-> 0, length |-> Utf16Char(text[1]),
              document_id |-> 0]>>,
           <<[kind |-> "underline",
              offset |-> Utf16Len(SubSeq(text, 1, Len(text) - 1)),
              length |-> Utf16Char(text[Len(text)]), document_id |-> 0]>>,
           <<CustomEmoji(0, Utf16Char(text[1]), 1)>>})

\* A message is posted in a channel; the platform delivers NewMessage.
PostMessage ==
    /\ Len(posts) < MaxPosts
    /\ \E c \in Channels, text \in Texts :
         \E entities \in PostedEntities(text) :
           /\ posts' = Append(posts, [chan |-> c, text |-> text, entities |-> entities,
                                      edits |-> 0])
           /\ events' = Append(events, [kind |-> "new", post |-> Len(posts) + 1,
                                        text |-> text, entities |-> entities])
    /\ UNCHANGED <<emoji_mappings, channel_emoji_mappings, channel_replacement_status>>
    /\ UNCHANGED <<qvars, fvars, svars>>

\* The handler's rewrite of the event's message: nothing for a channel that is
\* not monitored, a failed parse or a refused edit; else edit_message stores
\* the new text and entities and the platform delivers MessageEdited.
ReplaceEmojisInMessage(e) ==
    LET p == posts[e.post]
        r == Rewrite(p.chan, e.text, e.entities)
    IN  \E parse_ok \in BOOLEAN, edit_ok \in BOOLEAN :
          IF p.chan \in monitored_channels /\ EditCalled(r, parse_ok) /\ edit_ok
          THEN /\ posts' = [posts EXCEPT ![e.post].text = r.text,
                                         ![e.post].entities = r.entities,
                                         ![e.post].edits = @ + 1]
               /\ events' = Append(Tail(events),
                                   [kind |-> "edited", post |-> e.post,
                                    text |-> r.text, entities |-> r.entities])
          ELSE /\ events' = Tail(events)
               /\ UNCHANGED posts

\* new_message_handler, its rewriting part (the copying part is ForwardSpec's).
NewMessageHandler ==
    /\ events # <<>>
    /\ Head(events).kind = "new"
    /\ ReplaceEmojisInMessage(Head(events))
    /\ UNCHANGED <<emoji_mappings, channel_emoji_mappings, channel_replacement_status>>
    /\ UNCHANGED <<qvars, fvars, svars>>

EditedMessageHandler ==
    /\ events # <<>>
    /\ Head(events).kind = "edited"
    /\ ReplaceEmojisInMessage(Head(events))
    /\ UNCHANGED <<emoji_mappings, channel_emoji_mappings, channel_replacement_status>>
    /\ UNCHANGED <<qvars, fvars, svars>>

\* What the rule operations leave alone.
RuleFrame ==
    /\ UNCHANGED <<posts, events>>
    /\ UNCHANGED <<monitored_channels, forwarding_tasks, db_forwarding_tasks, messages,
                   units, copies>>
    /\ UNCHANGED <<admin_ids, db_bot_admins>>
    /\ UNCHANGED qvars

AddEmojiReplacement ==
    /\ ops < MaxRuleOps
    /\ \E emoji \in RuleSymbols, id \in Ids : add_emoji_replacement(emoji, id, "ok")
    /\ ops' = ops + 1
    /\ UNCHANGED <<channel_emoji_mappings, channel_replacement_status,
                   db_channel_emoji_replacements, db_monitored_channels>>
    /\ RuleFrame

AddChannelEmojiReplacement ==
    /\ ops < MaxRuleOps
    /\ \E c \in monitored_channels, emoji \in RuleSymbols, id \in Ids :
         add_channel_emoji_replacement(c, emoji, id, "ok")
    /\ ops' = ops + 1
    /\ UNCHANGED <<emoji_mappings, channel_replacement_status, db_emoji_replacements,
                   db_monitored_channels>>
    /\ RuleFrame

DeactivateChannelReplacement ==
    /\ ops < MaxRuleOps
    /\ \E c \in monitored_channels : set_channel_replacement(c, FALSE, "ok")
    /\ ops' = ops + 1
    /\ UNCHANGED <<emoji_mappings, channel_emoji_mappings, db_emoji_replacements,
                   db_channel_emoji_replacements>>
    /\ RuleFrame

\* Two monitored channels with replacement on, no rule yet.
RewriteInit ==
    /\ QueueInit
    /\ monitored_channels = {10, 20}
    /\ forwarding_tasks = <<>>
    /\ db_forwarding_tasks = <<>>
    /\ messages = <<>>
    /\ units = {}
    /\ copies = <<>>
    /\ ops = 0
    /\ emoji_mappings = <<>>
    /\ channel_emoji_mappings = <<>>
    /\ channel_replacement_status = [c \in {10, 20} |-> TRUE]
    /\ db_monitored_channels = ActiveRows({10, 20})
    /\ db_emoji_replacements = <<>>
    /\ db_channel_emoji_replacements = <<>>
    /\ admin_ids = {DefaultAdmin}
    /\ db_bot_admins = <<>>
    /\ reply = Null
    /\ posts = <<>>
    /\ events = <<>>

RewriteNext ==
    \/ PostMessage
    \/ NewMessageHandler
    \/ EditedMessageHandler
    \/ AddEmojiReplacement
    \/ AddChannelEmojiReplacement
    \/ DeactivateChannelReplacement

RewriteSpec == RewriteInit /\ [][RewriteNext]_vars

\* ------------------------------------------------------- store commands
\* The commands that change the store, each as its handler runs it: its
\* checks against the caches, then the store operation with the outcome of
\* its persistence calls, then its reply.
Outcomes == {"ok", "fail"}
RemoveOutcomes == {"ok", "fail", "fail_late"}
DelayRequests == {0 - 1, 0, 2, MaxDelay, MaxDelay + 1}
StoreSymbols == {<<"F">>, <<"K">>}

\* The full reload of init_database and sync_system_data, loader by loader.
LoadEmojiMappings(db) == [e \in DOMAIN db |-> db[e]]

LoadChannelEmojiMappings(db) ==
    [c \in {k[1] : k \in DOMAIN db} |->
        [e \in {k[2] : k \in {x \in DOMAIN db : x[1] = c}} |-> db[<<c, e>>]]]

LoadMonitoredChannels(db) == {c \in DOMAIN db : db[c].is_active}

LoadReplacementStatus(db) ==
    [c \in LoadMonitoredChannels(db) |-> db[c].replacement_active]

\* load_admin_ids first inserts the built-in admin unless it has a row.
WithDefaultAdmin(db) == IF DefaultAdmin \in DOMAIN db THEN db ELSE Put(db, DefaultAdmin, TRUE)

LoadAdminIds(db) == {u \in DOMAIN db : db[u]}

\* The cache as a dict: id -> entry, whatever its order.
AsDict(cache) ==
    [id \in {cache[k].id : k \in 1..Len(cache)} |->
        LET k == CHOOSE x \in 1..Len(cache) : cache[x].id = id
        IN  [source |-> cache[k].source, target |-> cache[k].target,
             active |-> cache[k].active, delay |-> cache[k].delay]]

\* Every cache holds what a full reload of the tables would put in it.
Mirrored ==
    /\ emoji_mappings = LoadEmojiMappings(db_emoji_replacements)
    /\ channel_emoji_mappings = LoadChannelEmojiMappings(db_channel_emoji_replacements)
    /\ monitored_channels = LoadMonitoredChannels(db_monitored_channels)
    /\ channel_replacement_status = LoadReplacementStatus(db_monitored_channels)
    /\ \E loaded \in LoadForwardingTasks(db_forwarding_tasks) :
          AsDict(forwarding_tasks) = AsDict(loaded)
    /\ admin_ids = LoadAdminIds(WithDefaultAdmin(db_bot_admins))

StoreData ==
    <<monitored_channels, forwarding_tasks, db_forwarding_tasks, emoji_mappings,
      channel_emoji_mappings, channel_replacement_status, db_monitored_channels,
      db_emoji_replacements, db_channel_emoji_replacements, admin_ids, db_bot_admins>>

Caches ==
    <<monitored_channels, forwarding_tasks, emoji_mappings, channel_emoji_mappings,
      channel_replacement_status, admin_ids>>

\* A command is one more operation; a failing persistence call one more fault.
Account(out) ==
    /\ ops < MaxStoreOps
    /\ ops' = ops + 1
    /\ out # "ok" => faults < MaxFaults
    /\ faults' = IF out = "ok" THEN faults ELSE faults + 1
    /\ UNCHANGED <<command_queue, qpc, commands, idx, result, sleep_s>>
    /\ UNCHANGED <<messages, units, copies, posts, events>>

\* The handler answers from its checks and makes no persistence call.
Refuse(answer, out) ==
    /\ out = "ok"
    /\ reply' = answer
    /\ UNCHANGED StoreData

GlobalRuleRest ==
    <<monitored_channels, forwarding_tasks, db_forwarding_tasks, channel_emoji_mappings,
      channel_replacement_status, db_monitored_channels, db_channel_emoji_replacements,
      admin_ids, db_bot_admins>>

ChannelRuleRest ==
    <<monitored_channels, forwarding_tasks, db_forwarding_tasks, emoji_mappings,
      channel_replacement_status, db_monitored_channels, db_emoji_replacements,
      admin_ids, db_bot_admins>>

ChannelRest ==
    <<forwarding_tasks, db_forwarding_tasks, emoji_mappings, db_emoji_replacements,
      admin_ids, db_bot_admins>>

TaskRest ==
    <<monitored_channels, emoji_mappings, channel_emoji_mappings,
      channel_replacement_status, db_monitored_channels, db_emoji_replacements,
      db_channel_emoji_replacements, admin_ids, db_bot_admins>>

AdminRest ==
    <<monitored_channels, forwarding_tasks, db_forwarding_tasks, emoji_mappings,
      channel_emoji_mappings, channel_replacement_status, db_monitored_channels,
      db_emoji_replacements, db_channel_emoji_replacements>>

HandleAddChannelCommand ==
    \E c \in Channels, out \in Outcomes :
        /\ Account(out)
        /\ add_monitored_channel(c, out)
        /\ UNCHANGED <<channel_emoji_mappings, db_channel_emoji_replacements>>
        /\ UNCHANGED ChannelRest

HandleRemoveChannelCommand ==
    \E c \in Channels, out \in RemoveOutcomes :
        /\ Account(out)
        /\ IF c \notin monitored_channels
           THEN Refuse("rejected", out)
           ELSE /\ remove_monitored_channel(c, out)
                /\ UNCHANGED channel_replacement_status
                /\ UNCHANGED ChannelRest

\* handle_add_emoji_command: a symbol that has a global rule is answered with
\* a warning and add_emoji_replacement is not called.
HandleAddEmojiCommand ==
    \E emoji \in StoreSymbols, id \in Ids, out \in Outcomes :
        /\ Account(out)
        /\ IF emoji \in DOMAIN emoji_mappings
           THEN Refuse("exists", out)
           ELSE /\ add_emoji_replacement(emoji, id, out)
                /\ UNCHANGED GlobalRuleRest

HandleDeleteEmojiCommand ==
    \E emoji \in StoreSymbols, out \in Outcomes :
        /\ Account(out)
        /\ IF emoji \notin DOMAIN emoji_mappings
           THEN Refuse("rejected", out)
           ELSE /\ delete_emoji_replacement(emoji, out)
                /\ UNCHANGED GlobalRuleRest

CmdDeleteAllEmojiReplacements ==
    \E out \in Outcomes :
        /\ Account(out)
        /\ IF DOMAIN emoji_mappings = {}
           THEN Refuse("rejected", out)
           ELSE /\ delete_all_emoji_replacements(out)
                /\ UNCHANGED GlobalRuleRest

\* cmd_add_channel_emoji_replacement: a symbol the channel has a rule for is
\* listed as existing and left as it is.
CmdAddChannelEmojiReplacement ==
    \E c \in Channels, emoji \in StoreSymbols, id \in Ids, out \in Outcomes :
        /\ Account(out)
        /\ IF c \notin monitored_channels
           THEN Refuse("rejected", out)
           ELSE IF c \in DOMAIN channel_emoji_mappings
                   /\ emoji \in DOMAIN channel_emoji_mappings[c]
                THEN Refuse("exists_in_channel", out)
                ELSE /\ add_channel_emoji_replacement(c, emoji, id, out)
                     /\ UNCHANGED ChannelRuleRest

CmdDeleteChannelEmojiReplacement ==
    \E c \in Channels, emoji \in StoreSymbols, out \in Outcomes :
        /\ Account(out)
        /\ IF c \notin monitored_channels
           THEN Refuse("rejected", out)
           ELSE /\ delete_channel_emoji_replacement(c, emoji, out)
                /\ UNCHANGED ChannelRuleRest

CmdDeleteAllChannelEmojiReplacements ==
    \E c \in Channels, out \in Outcomes :
        /\ Account(out)
        /\ IF c \notin monitored_channels \/ c \notin DOMAIN channel_emoji_mappings
           THEN Refuse("rejected", out)
           ELSE /\ delete_all_channel_emoji_replacements(c, out)
                /\ UNCHANGED ChannelRuleRest

CmdSetChannelReplacement ==
    \E c \in Channels, flag \in BOOLEAN, out \in Outcomes :
        /\ Account(out)
        /\ IF c \notin monitored_channels
           THEN Refuse("rejected", out)
           ELSE /\ set_channel_replacement(c, flag, out)
                /\ UNCHANGED <<monitored_channels, channel_emoji_mappings,
                               db_channel_emoji_replacements>>
                /\ UNCHANGED ChannelRest

\* A command without the range checks.
AnyDelay(d) == TRUE

\* Neither "delay_seconds < 0" nor "delay_seconds > 3600".
DelayAllowed(d) == ~(d < 0) /\ ~(d > MaxDelay)

\* cmd_add_forwarding_task: the delay is checked first, then the channels.
CmdAddForwardingTask ==
    \E s \in Channels, t \in Channels, d \in DelayRequests, out \in Outcomes :
        /\ Account(out)
        /\ IF ~DelayAllowed(d)
           THEN Refuse("bad_delay", out)
           ELSE IF s \notin monitored_channels \/ t \notin monitored_channels \/ s = t
                THEN Refuse("rejected", out)
                ELSE /\ PairIds(db_forwarding_tasks, s, t) = {} =>
                            Len(db_forwarding_tasks) < MaxTasks
                     /\ add_forwarding_task(s, t, d, out)
                     /\ UNCHANGED TaskRest

TaskIds == 1..MaxTasks

HandleDeleteForwardingTaskCommand ==
    \E id \in TaskIds, out \in Outcomes :
        /\ Account(out)
        /\ IF CachePos(forwarding_tasks, id) = {}
           THEN Refuse("rejected", out)
           ELSE /\ delete_forwarding_task(id, out)
                /\ UNCHANGED TaskRest

\* "fail_late": the reload of a task that is not cached fails.
HandleActivateForwardingTaskCommand ==
    \E id \in TaskIds, out \in RemoveOutcomes :
        /\ Account(out)
        /\ out = "fail_late" =>
              id \in 1..Len(db_forwarding_tasks) /\ CachePos(forwarding_tasks, id) = {}
        /\ activate_forwarding_task(id, out)
        /\ UNCHANGED TaskRest

HandleDeactivateForwardingTaskCommand ==
    \E id \in TaskIds, out \in Outcomes :
        /\ Account(out)
        /\ deactivate_forwarding_task(id, out)
        /\ UNCHANGED TaskRest

\* cmd_update_forwarding_delay: the range checks, then the UPDATE, then the
\* cached entry when there is one.
CmdUpdateForwardingDelay ==
    \E id \in TaskIds, d \in DelayRequests, out \in Outcomes :
        /\ Account(out)
        /\ IF ~DelayAllowed(d)
           THEN Refuse("bad_delay", out)
           ELSE LET updated == out = "ok" /\ id \in 1..Len(db_forwarding_tasks)
                IN  /\ reply' = Returned(updated)
                    /\ IF updated
                       THEN /\ db_forwarding_tasks' =
                                  [db_forwarding_tasks EXCEPT ![id].delay = d]
                            /\ forwarding_tasks' =
                                  [k \in 1..Len(forwarding_tasks) |->
                                      IF forwarding_tasks[k].id = id
                                      THEN [forwarding_tasks[k] EXCEPT !.delay = d]
                                      ELSE forwarding_tasks[k]]
                       ELSE UNCHANGED <<db_forwarding_tasks, forwarding_tasks>>
                    /\ UNCHANGED TaskRest

HandleAddAdminCommand ==
    \E u \in Users, out \in Outcomes :
        /\ Account(out)
        /\ IF u \in admin_ids
           THEN Refuse("already_admin", out)
           ELSE /\ add_admin(u, out)
                /\ UNCHANGED AdminRest

HandleRemoveAdminCommand ==
    \E u \in Users, out \in Outcomes :
        /\ Account(out)
        /\ IF u = DefaultAdmin \/ u = SessionOwner \/ u \notin admin_ids
           THEN Refuse("rejected", out)
           ELSE /\ remove_admin(u, out)
                /\ UNCHANGED AdminRest

\* cmd_add_admin and cmd_remove_admin, the commands sent to the bot itself.
CmdAddAdmin ==
    \E u \in Users, out \in Outcomes :
        /\ Account(out)
        /\ IF u \in admin_ids
           THEN Refuse("already_admin", out)
           ELSE /\ add_admin(u, out)
                /\ UNCHANGED AdminRest

CmdRemoveAdmin ==
    \E u \in Users, out \in Outcomes :
        /\ Account(out)
        /\ IF u = DefaultAdmin \/ u \notin admin_ids
           THEN Refuse("rejected", out)
           ELSE /\ remove_admin(u, out)
                /\ UNCHANGED AdminRest

\* A restart (init_database) or sync_system_data with every loader
\* succeeding: each cache is rebuilt from its table.
Restart ==
    /\ Account("ok")
    /\ db_bot_admins' = WithDefaultAdmin(db_bot_admins)
    /\ emoji_mappings' = LoadEmojiMappings(db_emoji_replacements)
    /\ channel_emoji_mappings' = LoadChannelEmojiMappings(db_channel_emoji_replacements)
    /\ monitored_channels' = LoadMonitoredChannels(db_monitored_channels)
    /\ channel_replacement_status' = LoadReplacementStatus(db_monitored_channels)
    /\ forwarding_tasks' \in LoadForwardingTasks(db_forwarding_tasks)
    /\ admin_ids' = LoadAdminIds(db_bot_admins')
    /\ reply' = Null
    /\ UNCHANGED <<db_monitored_channels, db_emoji_replacements,
                   db_channel_emoji_replacements, db_forwarding_tasks>>

\* The tables a running bot can have, small ones.
StoredGlobalRules == {<<>>, [e \in {<<"F">>} |-> 1]}

StoredChannelRules ==
    {<<>>,
     [k \in {<<10, <<"F">>>>} |-> 2],
     [k \in {<<10, <<"F">>>>, <<10, <<"K">>>>, <<20, <<"K">>>>} |->
         IF k[1] = 10 /\ k[2] = <<"K">> THEN 1 ELSE 2]}

StoredTasks ==
    {<<>>,
     <<[source |-> 10, target |-> 20, is_active |-> TRUE, delay |-> 0]>>,
     <<[source |-> 10, target |-> 20, is_active |-> FALSE, delay |-> 2]>>}

\* After start(): init_database has loaded every cache from its table.
StoreInit ==
    /\ QueueInit
    /\ messages = <<>>
    /\ units = {}
    /\ copies = NoCopies
    /\ posts = <<>>
    /\ events = <<>>
    /\ ops = 0
    /\ reply = Null
    /\ db_monitored_channels = ActiveRows({10, 20})
    /\ db_emoji_replacements \in StoredGlobalRules
    /\ db_channel_emoji_replacements \in StoredChannelRules
    /\ db_forwarding_tasks \in StoredTasks
    /\ db_bot_admins = WithDefaultAdmin(<<>>)
    /\ emoji_mappings = LoadEmojiMappings(db_emoji_replacements)
    /\ channel_emoji_mappings = LoadChannelEmojiMappings(db_channel_emoji_replacements)
    /\ monitored_channels = LoadMonitoredChannels(db_monitored_channels)
    /\ channel_replacement_status = LoadReplacementStatus(db_monitored_channels)
    /\ forwarding_tasks \in LoadForwardingTasks(db_forwarding_tasks)
    /\ admin_ids = LoadAdminIds(db_bot_admins)

StoreNext ==
    \/ HandleAddChannelCommand
    \/ HandleRemoveChannelCommand
    \/ HandleAddEmojiCommand
    \/ HandleDeleteEmojiCommand
    \/ CmdDeleteAllEmojiReplacements
    \/ CmdAddChannelEmojiReplacement
    \/ CmdDeleteChannelEmojiReplacement
    \/ CmdDeleteAllChannelEmojiReplacements
    \/ CmdSetChannelReplacement
    \/ CmdAddForwardingTask
    \/ HandleDeleteForwardingTaskCommand
    \/ HandleActivateForwardingTaskCommand
    \/ HandleDeactivateForwardingTaskCommand
    \/ CmdUpdateForwardingDelay
    \/ HandleAddAdminCommand
    \/ HandleRemoveAdminCommand
    \/ Restart

StoreSpec == StoreInit /\ [][StoreNext]_vars

\* ------------------------------------------------------- the whole handler
\* new_message_handler from the event to the copies: the rewrite, the
\* re-fetch of the message, then forward_message_to_targets.
PipelineTexts == SeqsUpTo(TextChars, 2)

\* What a message object carries of the post.
Content(post) == [text |-> post.text, entities |-> post.entities]

\* A message is posted and NewMessage delivered: the handler returns at once
\* for a channel that is not monitored, else it awaits
\* replace_emojis_in_message.  updated_message starts as event.message.
PipelineNewMessage ==
    /\ Len(messages) < MaxMsgs
    /\ \E c \in Channels, text \in PipelineTexts, md \in BOOLEAN :
         \E entities \in PostedEntities(text) :
           LET post == [chan |-> c, text |-> text, entities |-> entities, edits |-> 0]
           IN  /\ posts' = Append(posts, post)
               /\ messages' =
                     Append(messages,
                            [chan |-> c, md |-> md,
                             pc |-> IF c \in monitored_channels
                                    THEN "rewriting" ELSE "ignored",
                             tasks |-> <<>>, i |-> 0, post |-> Len(posts) + 1,
                             original |-> Content(post), updated |-> Content(post),
                             fetched |-> FALSE, parse |-> "none"])
    /\ UNCHANGED <<monitored_channels, forwarding_tasks, db_forwarding_tasks, units,
                   copies, ops>>
    /\ UNCHANGED <<emoji_mappings, channel_emoji_mappings, channel_replacement_status,
                   events>>
    /\ UNCHANGED <<qvars, svars>>

\* replace_emojis_in_message returns: the post is edited when the rewrite
\* changes it and neither the parse nor edit_message raised; the platform
\* then delivers MessageEdited.  The handler goes on to its re-fetch.
PipelineRewritten ==
    /\ \E m \in 1..Len(messages), parse_ok \in BOOLEAN, edit_ok \in BOOLEAN :
         LET h == messages[m]
             r == Rewrite(h.chan, h.original.text, h.original.entities)
         IN  /\ h.pc = "rewriting"
             /\ IF EditCalled(r, parse_ok) /\ edit_ok
                THEN /\ posts' = [posts EXCEPT ![h.post].text = r.text,
                                               ![h.post].entities = r.entities,
                                               ![h.post].edits = @ + 1]
                     /\ events' = Append(events,
                                         [kind |-> "edited", post |-> h.post,
                                          text |-> r.text, entities |-> r.entities])
                ELSE UNCHANGED <<posts, events>>
             /\ messages' =
                   [messages EXCEPT
                      ![m].pc = "fetching",
                      ![m].parse =
                          IF ~ReachesParse(h.chan, h.original.text, h.original.entities)
                          THEN "none"
                          ELSE IF parse_ok THEN "returned" ELSE "raised"]
    /\ UNCHANGED <<monitored_channels, forwarding_tasks, db_forwarding_tasks, units,
                   copies, ops>>
    /\ UNCHANGED <<emoji_mappings, channel_emoji_mappings, channel_replacement_status>>
    /\ UNCHANGED <<qvars, svars>>

\* A handler that forwards the event's message as it was delivered.
EventMessage(h, ok) == h.original

\* Lines 4697-4722: get_messages returns the post as the platform holds it;
\* when it raises, updated_message is set back to event.message.
UpdatedMessage(h, ok) == IF ok THEN Content(posts[h.post]) ELSE h.original

\* The sleep and the re-fetch are over: forward_message_to_targets is next.
PipelineFetched ==
    /\ \E m \in 1..Len(messages), ok \in BOOLEAN :
         /\ messages[m].pc = "fetching"
         /\ messages' = [messages EXCEPT ![m].pc = "wait",
                                         ![m].updated = UpdatedMessage(messages[m], ok),
                                         ![m].fetched = ok]
    /\ UNCHANGED <<monitored_channels, forwarding_tasks, db_forwarding_tasks, units,
                   copies, ops>>
    /\ UNCHANGED <<qvars, rvars, svars>>

PipelineRules ==
    {<<>>, [e \in {<<"F">>} |-> 1], [e \in {<<"F">>, <<"K">>} |-> IF e = <<"F">> THEN 1 ELSE 2]}

PipelineTasks ==
    {<<>>,
     <<[source |-> 10, target |-> 20, is_active |-> TRUE, delay |-> 0]>>,
     <<[source |-> 10, target |-> 20, is_active |-> TRUE, delay |-> 2]>>,
     <<[source |-> 10, target |-> 20, is_active |-> TRUE, delay |-> 2],
       [source |-> 20, target |-> 10, is_active |-> TRUE, delay |-> 0]>>}

\* After start(): two monitored channels, global rules and tasks loaded.
PipelineInit ==
    /\ QueueInit
    /\ messages = <<>>
    /\ units = {}
    /\ copies = NoCopies
    /\ posts = <<>>
    /\ events = <<>>
    /\ ops = 0
    /\ reply = Null
    /\ db_monitored_channels = ActiveRows({10, 20})
    /\ db_emoji_replacements \in PipelineRules
    /\ db_channel_emoji_replacements = <<>>
    /\ db_forwarding_tasks \in PipelineTasks
    /\ db_bot_admins = WithDefaultAdmin(<<>>)
    /\ emoji_mappings = LoadEmojiMappings(db_emoji_replacements)
    /\ channel_emoji_mappings = LoadChannelEmojiMappings(db_channel_emoji_replacements)
    /\ monitored_channels = LoadMonitoredChannels(db_monitored_channels)
    /\ channel_replacement_status = LoadReplacementStatus(db_monitored_channels)
    /\ forwarding_tasks \in LoadForwardingTasks(db_forwarding_tasks)
    /\ admin_ids = LoadAdminIds(db_bot_admins)

PipelineNext ==
    \/ PipelineNewMessage
    \/ PipelineRewritten
    \/ PipelineFetched
    \/ EditedMessageHandler
    \/ ForwardMessageToTargets
    \/ CopyReturns
    \/ DelayedCopyStarts
    \/ DelayedCopyReturns

PipelineSpec == PipelineInit /\ [][PipelineNext]_vars

\* ------------------------------------------------------ the copied content
\* _copy_message_to_target on the content of a text message: what it hands to
\* send_message.  Here copies holds one record per call, in order.

\* '[' in text_content and '](' in text_content; the other delimiters the
\* test names ('**', '__', '~~', '`') are outside the alphabet of Texts.
NeedsMarkdownParse(text) ==
    /\ \E i \in 1..Len(text) : text[i] = "["
    /\ \E j \in 1..Len(text) : text[j] \in CloseToks

\* Lines 446-537.  With entities and markdown syntax the text is parsed and
\* the list sent is the message's custom emoji entities, then the parse's
\* entities that are not custom emoji, by offset; without markdown syntax,
\* or when the parse raises, the message's text and entities are sent.
\* Without entities the parse's text and entities are sent, or the text.
SentContent(msg, parse_ok) ==
    LET parsed == Parse(msg.text)
    IN  IF NeedsMarkdownParse(msg.text) /\ parse_ok
        THEN IF msg.entities # <<>>
             THEN [text |-> parsed.text,
                   entities |->
                       SortByOffset(SelectSeq(msg.entities, IsCustomEmoji)
                                    \o SelectSeq(parsed.entities,
                                                 LAMBDA e : ~IsCustomEmoji(e)))]
             ELSE [text |-> parsed.text, entities |-> parsed.entities]
        ELSE [text |-> msg.text, entities |-> msg.entities]

\* One call of _copy_message_to_target for a post with text, to a channel
\* other than the post's own.
CopyMessageToTarget ==
    /\ Len(copies) < MaxTasks
    /\ \E p \in 1..Len(posts), t \in Channels, parse_ok \in BOOLEAN :
         /\ posts[p].text # <<>>
         /\ t # posts[p].chan
         /\ copies' = Append(copies,
                             [target |-> t, given |-> Content(posts[p]),
                              sent |-> SentContent(Content(posts[p]), parse_ok)])
    /\ UNCHANGED <<monitored_channels, forwarding_tasks, db_forwarding_tasks, messages,
                   units, ops>>
    /\ UNCHANGED <<qvars, rvars, svars>>

CopyNext ==
    \/ PostMessage
    \/ AddEmojiReplacement
    \/ NewMessageHandler
    \/ EditedMessageHandler
    \/ CopyMessageToTarget

CopySpec == RewriteInit /\ [][CopyNext]_vars

\* ------------------------------------------------- the replacement flag
\* The whole handler with the channels' replacement switched on and off in
\* between.  The stored flags of the two monitored channels are any.
StoredFlags ==
    {[c \in {10, 20} |-> [is_active |-> TRUE, replacement_active |-> f[c]]] :
        f \in [{10, 20} -> BOOLEAN]}

FlagInit ==
    /\ QueueInit
    /\ messages = <<>>
    /\ units = {}
    /\ copies = NoCopies
    /\ posts = <<>>
    /\ events = <<>>
    /\ ops = 0
    /\ reply = Null
    /\ db_monitored_channels \in StoredFlags
    /\ db_emoji_replacements = [e \in {<<"F">>} |-> 1]
    /\ db_channel_emoji_replacements = <<>>
    /\ db_forwarding_tasks \in
          {<<[source |-> 10, target |-> 20, is_active |-> TRUE, delay |-> d]>> :
              d \in Delays}
    /\ db_bot_admins = WithDefaultAdmin(<<>>)
    /\ emoji_mappings = LoadEmojiMappings(db_emoji_replacements)
    /\ channel_emoji_mappings = LoadChannelEmojiMappings(db_channel_emoji_replacements)
    /\ monitored_channels = LoadMonitoredChannels(db_monitored_channels)
    /\ channel_replacement_status = LoadReplacementStatus(db_monitored_channels)
    /\ forwarding_tasks \in LoadForwardingTasks(db_forwarding_tasks)
    /\ admin_ids = LoadAdminIds(db_bot_admins)

FlagNext ==
    \/ CmdSetChannelReplacement
    \/ PipelineNewMessage
    \/ PipelineRewritten
    \/ PipelineFetched
    \/ EditedMessageHandler
    \/ ForwardMessageToTargets
    \/ CopyReturns
    \/ DelayedCopyStarts
    \/ DelayedCopyReturns

FlagSpec == FlagInit /\ [][FlagNext]_vars

\* ---------------------------------------------------------- edited posts
\* The whole handler, with the post edited by people as well: here ops counts
\* their edits.
EditTexts == {<<"a">>, <<"F">>}

\* Somebody edits a post; the platform delivers MessageEdited.
SomeoneEdits ==
    /\ ops < MaxEdits
    /\ \E p \in 1..Len(posts), text \in EditTexts :
         /\ text # posts[p].text
         /\ posts' = [posts EXCEPT ![p].text = text, ![p].entities = <<>>]
         /\ events' = Append(events, [kind |-> "edited", post |-> p, text |-> text,
                                      entities |-> <<>>])
    /\ ops' = ops + 1
    /\ UNCHANGED <<monitored_channels, forwarding_tasks, db_forwarding_tasks, messages,
                   units, copies>>
    /\ UNCHANGED <<emoji_mappings, channel_emoji_mappings, channel_replacement_status>>
    /\ UNCHANGED <<qvars, svars>>

\* A handler that goes on to forward the edited post, as the handler of a
\* new message does.
ForwardsAgain(msgs, p) ==
    [m \in 1..Len(msgs) |->
        IF msgs[m].post = p /\ msgs[m].pc = "done"
        THEN [msgs[m] EXCEPT !.pc = "wait"]
        ELSE msgs[m]]

\* edited_message_handler after replace_emojis_in_message: nothing follows.
AfterRewriteOfEdit(msgs, p) == msgs

PipelineEdited ==
    /\ events # <<>>
    /\ Head(events).kind = "edited"
    /\ ReplaceEmojisInMessage(Head(events))
    /\ messages' = AfterRewriteOfEdit(messages, Head(events).post)
    /\ UNCHANGED <<monitored_channels, forwarding_tasks, db_forwarding_tasks, units,
                   copies, ops>>
    /\ UNCHANGED <<emoji_mappings, channel_emoji_mappings, channel_replacement_status>>
    /\ UNCHANGED <<qvars, svars>>

\* One global rule; a delayed task 10 -> 20 and an immediate task 20 -> 10.
EditInit ==
    /\ PipelineInit
    /\ DOMAIN db_emoji_replacements = {<<"F">>}
    /\ Len(db_forwarding_tasks) = 2

EditNext ==
    \/ PipelineNewMessage
    \/ PipelineRewritten
    \/ PipelineFetched
    \/ PipelineEdited
    \/ SomeoneEdits
    \/ ForwardMessageToTargets
    \/ CopyReturns
    \/ DelayedCopyStarts
    \/ DelayedCopyReturns

EditSpec == EditInit /\ [][EditNext]_vars

\* -------------------------------------------------------------- the admins
\* The admin commands, queued and direct, and restarts.
AdminNext ==
    \/ HandleAddAdminCommand
    \/ HandleRemoveAdminCommand
    \/ CmdAddAdmin
    \/ CmdRemoveAdmin
    \/ Restart

AdminSpec == StoreInit /\ [][AdminNext]_vars

\* ------------------------------------------------------------ deleted tasks
\* Every stored task is active at the start, no command deactivates one and
\* none adds one: a row with is_active FALSE is the row of a task that
\* delete_forwarding_task has deleted, and no pair is added anew.
DeletionInit ==
    /\ StoreInit
    /\ \A i \in 1..Len(db_forwarding_tasks) : db_forwarding_tasks[i].is_active

DeletionNext ==
    \/ HandleDeleteForwardingTaskCommand
    \/ HandleActivateForwardingTaskCommand
    \/ CmdUpdateForwardingDelay

DeletionSpec == DeletionInit /\ [][DeletionNext]_vars

\* ------------------------------------------------------- copies observed
\* events.NewMessage() is registered without a direction: the message a copy
\* leaves in its target channel is delivered to new_message_handler like any
\* other.  Here events holds the channels of the new-message events not yet
\* handled, units the copy operations forward_message_to_targets has started
\* or scheduled, and posts the channel of the one message somebody posted.
RemoveAt(s, i) == SubSeq(s, 1, i - 1) \o SubSeq(s, i + 1, Len(s))

\* One _copy_message_to_target per active task of the channel, immediate or
\* delayed.
CopyOperations(c) ==
    LET tasks == ActiveTasks(forwarding_tasks, monitored_channels, c)
    IN  [k \in 1..Len(tasks) |-> [source |-> c, target |-> tasks[k].target]]

\* new_message_handler, lines 4683-4722: the channel is looked up in
\* monitored_channels and nothing else is asked of the message.
HandlerCopies(c) ==
    IF c \in monitored_channels THEN CopyOperations(c) ELSE <<>>

PostOnce ==
    /\ posts = <<>>
    /\ \E c \in Channels :
         /\ posts' = <<c>>
         /\ events' = Append(events, [chan |-> c, original |-> TRUE])
    /\ UNCHANGED <<emoji_mappings, channel_emoji_mappings, channel_replacement_status>>
    /\ UNCHANGED <<qvars, fvars, svars>>

\* new_message_handler for one delivered event, with the loop of
\* forward_message_to_targets.
ObservedNewMessage ==
    /\ \E i \in 1..Len(events) :
         /\ events' = RemoveAt(events, i)
         /\ units' = units \o HandlerCopies(events[i].chan)
    /\ UNCHANGED <<monitored_channels, forwarding_tasks, db_forwarding_tasks, messages,
                   copies, ops>>
    /\ UNCHANGED <<emoji_mappings, channel_emoji_mappings, channel_replacement_status,
                   posts>>
    /\ UNCHANGED <<qvars, svars>>

\* The send of a copy returns, and its message is a new message of the
\* target channel, or raises.
CopyDelivered ==
    /\ \E k \in 1..Len(units), ok \in BOOLEAN :
         /\ units' = RemoveAt(units, k)
         /\ events' = IF ok
                       THEN Append(events, [chan |-> units[k].target, original |-> FALSE])
                       ELSE events
    /\ UNCHANGED <<monitored_channels, forwarding_tasks, db_forwarding_tasks, messages,
                   copies, ops>>
    /\ UNCHANGED <<emoji_mappings, channel_emoji_mappings, channel_replacement_status,
                   posts>>
    /\ UNCHANGED <<qvars, svars>>

\* The caches after init_database, as in InitDatabase; nothing under way.
EchoInit ==
    /\ QueueInit
    /\ monitored_channels \in SUBSET Channels
    /\ db_forwarding_tasks \in TaskTables
    /\ forwarding_tasks \in LoadForwardingTasks(db_forwarding_tasks)
    /\ messages = <<>>
    /\ units = <<>>
    /\ copies = NoCopies
    /\ ops = 0
    /\ channel_replacement_status = [c \in monitored_channels |-> TRUE]
    /\ db_monitored_channels = ActiveRows(monitored_channels)
    /\ db_emoji_replacements = <<>>
    /\ db_channel_emoji_replacements = <<>>
    /\ admin_ids = {DefaultAdmin}
    /\ db_bot_admins = <<>>
    /\ reply = Null
    /\ emoji_mappings = <<>>
    /\ channel_emoji_mappings = <<>>
    /\ posts = <<>>
    /\ events = <<>>

EchoNext ==
    \/ PostOnce
    \/ ObservedNewMessage
    \/ CopyDelivered

\* Every delivered event is handled and every send returns or raises.
EchoSpec ==
    /\ EchoInit
    /\ [][EchoNext]_vars
    /\ WF_vars(ObservedNewMessage)
    /\ WF_vars(CopyDelivered)

\* ------------------------------------------------------------------ claims
Rows == 1..Len(command_queue)

Terminal == {"completed", "failed"}

StatusSteps ==
    {<<command_queue[i].status, command_queue'[i].status>> : i \in Rows}

C2_UnknownCommandEndsFailed ==
    \A i \in Rows :
        (command_queue[i].command \in UnknownCommands
            /\ command_queue[i].status \in Terminal)
        => (command_queue[i].status = "failed" /\ command_queue[i].result # Null)

\* C3 as stated: a row whose execution raised an exception (its outcome is the
\* text built from the exception) ends Failed, never Completed.
C3_ExceptionEndsFailed ==
    \A i \in Rows :
        command_queue[i].result = ExecErrorText => command_queue[i].status = "failed"

\* The consumer has let go of row i while it is still processing.
Abandoned(i) ==
    /\ command_queue[i].status = "processing"
    /\ ~(qpc \in {"execute", "record", "mark_failed"} /\ commands[idx] = i)

Msgs == 1..Len(messages)
Sending == {"sending_try", "sending_last"}
Targets(m) == {messages[m].tasks[j].target : j \in 1..Len(messages[m].tasks)}
CopyStarts(m, t) == copies'[<<m, t>>].calls > copies[<<m, t>>].calls
ActiveTask(s, t) ==
    \E k \in 1..Len(forwarding_tasks) :
        /\ forwarding_tasks[k].source = s
        /\ forwarding_tasks[k].target = t
        /\ forwarding_tasks[k].active

\* C7: a copy of a message from S to T starts only in a state where a task
\* (S,T) is active and S and T are both monitored, whatever channel and task
\* commands ran while the message was being handled.
C7_CopyOnlyWhenActiveAndMonitored ==
    [][\A m \in Msgs, t \in Channels :
          CopyStarts(m, t) =>
              /\ messages[m].chan \in monitored_channels
              /\ t \in monitored_channels
              /\ ActiveTask(messages[m].chan, t)]_vars

Eligible(m, t) ==
    /\ t \in monitored_channels
    /\ ActiveTask(messages[m].chan, t)

FannedOut(m) ==
    /\ messages[m].pc = "done"
    /\ \A t \in Channels :
          /\ copies[<<m, t>>].calls = IF Eligible(m, t) THEN 1 ELSE 0
          /\ copies[<<m, t>>].ended = copies[<<m, t>>].calls

C9_SuspendedSendBlocksNoOther ==
    \A m \in Msgs :
        messages[m].pc \in Sending =>
            \A t \in Targets(m) :
                \/ copies[<<m, t>>].calls > 0
                \/ \E u \in units : u.msg = m /\ u.target = t

\* C10: no copy of a message to a target makes more than one send attempt.
C10_AtMostOneAttempt ==
    \A k \in DOMAIN copies : copies[k].sends <= 1

\* C11: a delayed unit is never cancelled: no step takes a sleeping unit away
\* or changes it except the end of its sleep, which starts its copy, whether
\* or not its task is still active and its target still monitored.
C11_NoCancellation ==
    [][\A u \in units :
          u.pc = "sleeping" =>
              \/ u \in units'
              \/ /\ \E v \in units' :
                       /\ v.msg = u.msg /\ v.target = u.target /\ v.id = u.id
                       /\ v.pc \in Sending
                 /\ CopyStarts(u.msg, u.target)]_vars

\* A delayed copy was started although its task had been deactivated or
\* deleted, or its target removed, during the delay.
C11_Witness ==
    \E u \in units : u.pc \in Sending /\ u.stale /\ copies[<<u.msg, u.target>>].delayed

\* C12: a step that removes monitored channel c deletes every rule of c from
\* the channel_emoji_replacements table and from the channel rule cache, and
\* keeps every other channel's rules and every global rule, in the table and
\* in the cache, as they were.
C12_RemoveChannelRemovesItsRules ==
    [][\A c \in Channels :
          (c \in monitored_channels /\ c \notin monitored_channels') =>
              /\ DOMAIN db_channel_emoji_replacements' =
                    {k \in DOMAIN db_channel_emoji_replacements : k[1] # c}
              /\ \A k \in DOMAIN db_channel_emoji_replacements' :
                    db_channel_emoji_replacements'[k] = db_channel_emoji_replacements[k]
              /\ DOMAIN channel_emoji_mappings' = DOMAIN channel_emoji_mappings \ {c}
              /\ \A x \in DOMAIN channel_emoji_mappings' :
                    channel_emoji_mappings'[x] = channel_emoji_mappings[x]
              /\ emoji_mappings' = emoji_mappings
              /\ db_emoji_replacements' = db_emoji_replacements]_vars

\* Channel 10, which had two rules, was removed by the first command; the
\* rule of channel 20 is still stored and cached.
C12_Witness ==
    /\ ops = 1
    /\ reply = "ok"
    /\ 10 \notin monitored_channels
    /\ 10 \notin DOMAIN channel_emoji_mappings
    /\ DOMAIN db_channel_emoji_replacements = {<<20, <<"K">>>>}
    /\ 20 \in DOMAIN channel_emoji_mappings

\* C13: the queued add_emoji_replacement command for a symbol that already
\* has a global rule is carried out as an update of that rule and answered
\* as a success: it is never answered that the symbol exists already, with
\* the rule left as it was.
C13_AddExistingRuleUpdates == reply # "exists"

\* The text holds a character of the extractor's whitelist.
HasWhitelisted(text) == \E i \in 1..Len(text) : text[i] \in BaseChars

\* C14: for a message whose text holds no whitelisted symbol, the rewrite
\* returns changed = false with the text and entities it was given, and the
\* handler's step edits no post, whatever rules are cached.
C14_NoSymbolNoChange ==
    [][(events # <<>> /\ ~HasWhitelisted(Head(events).text)) =>
          LET e == Head(events)
              r == Rewrite(posts[e.post].chan, e.text, e.entities)
          IN  /\ ~r.changed
              /\ r.text = e.text
              /\ r.entities = e.entities
              /\ \A p \in 1..Len(posts) : posts'[p] = posts[p]]_vars

\* A non-empty text without whitelisted symbols was handled in a monitored
\* channel with replacement on, global and channel rules being cached, and
\* the post is as it was posted.
C14_Witness ==
    /\ Len(posts) = 1
    /\ events = <<>>
    /\ posts[1].text # <<>>
    /\ ~HasWhitelisted(posts[1].text)
    /\ posts[1].edits = 0
    /\ posts[1].chan \in monitored_channels
    /\ ReplacementEnabled(posts[1].chan)
    /\ DOMAIN emoji_mappings # {}
    /\ posts[1].chan \in DOMAIN channel_emoji_mappings

\* The characters of the text that a span covers, by UTF-16 offsets.
Covered(text, ent) ==
    {i \in 1..Len(text) :
        /\ Utf16Len(SubSeq(text, 1, i - 1)) >= ent.offset
        /\ Utf16Len(SubSeq(text, 1, i)) <= ent.offset + ent.length}

SpanText(text, ent) ==
    LET S == Covered(text, ent)
    IN  IF S = {} THEN <<>>
        ELSE SubSeq(text, Min(S), CHOOSE x \in S : \A y \in S : y <= x)

\* C15: in every rewrite that changes a message of channel c, each
\* substitution span of the result lies exactly over an occurrence of an
\* extracted symbol s that has a rule in c (the channel's or the global one)
\* and carries the id that rule resolves to; so a symbol without a rule
\* gets no span.
C15_SpansOverRuledSymbols ==
    \A k \in 1..Len(events) :
        LET e == events[k]
            c == posts[e.post].chan
            r == Rewrite(c, e.text, e.entities)
        IN  r.changed =>
              \A j \in 1..Len(r.entities) :
                  IsCustomEmoji(r.entities[j]) =>
                      LET s == SpanText(r.text, r.entities[j])
                      IN  /\ Utf16Len(s) = r.entities[j].length
                          /\ s \in Range(extract_emojis_from_text(e.text))
                          /\ Resolve(c, s) # 0
                          /\ Resolve(c, s) = r.entities[j].document_id

\* C16: a store operation in which a persistence call fails reports failure
\* and leaves every cache as it was.
C16_FailureLeavesCaches ==
    [][faults' > faults => (reply' = "failed" /\ Caches' = Caches)]_vars

\* C17: as long as no persistence call has failed, after every command and
\* every restart each cache holds what a full reload of the tables would
\* put in it.
C17_CachesMirrorTables == faults = 0 => Mirrored

\* C18: in the forwarding_tasks table and in the task cache no two tasks have
\* the same (source, target) pair and no task has its source as its target,
\* whatever add, activate, deactivate, delete and delay commands ran.
C18_TasksUniqueAndNotLooped ==
    /\ \A i, j \in 1..Len(db_forwarding_tasks) :
          i # j => <<db_forwarding_tasks[i].source, db_forwarding_tasks[i].target>> #
                   <<db_forwarding_tasks[j].source, db_forwarding_tasks[j].target>>
    /\ \A i \in 1..Len(db_forwarding_tasks) :
          db_forwarding_tasks[i].source # db_forwarding_tasks[i].target
    /\ \A i, j \in 1..Len(forwarding_tasks) :
          i # j => /\ forwarding_tasks[i].id # forwarding_tasks[j].id
                   /\ <<forwarding_tasks[i].source, forwarding_tasks[i].target>> #
                      <<forwarding_tasks[j].source, forwarding_tasks[j].target>>
    /\ \A i \in 1..Len(forwarding_tasks) :
          forwarding_tasks[i].source # forwarding_tasks[i].target

\* The pair 10 -> 20, stored inactive with delay 2, was added again with
\* the longest delay: the one row and the one cache entry carry the new values.
C18_Witness ==
    /\ ops = 1
    /\ reply = "ok"
    /\ Len(db_forwarding_tasks) = 1
    /\ db_forwarding_tasks[1].is_active
    /\ db_forwarding_tasks[1].delay = MaxDelay
    /\ Len(forwarding_tasks) = 1
    /\ forwarding_tasks[1].delay = MaxDelay

\* C19: every stored and every cached task has a delay within 0..MaxDelay,
\* and a command answered with the delay error (an add or a delay update
\* asking for a negative delay or one above MaxDelay) changes neither the
\* table nor the cache.
C19_DelayInRange ==
    /\ [](/\ \A i \in 1..Len(db_forwarding_tasks) :
               db_forwarding_tasks[i].delay \in 0..MaxDelay
          /\ \A k \in 1..Len(forwarding_tasks) :
               forwarding_tasks[k].delay \in 0..MaxDelay)
    /\ [][reply' = "bad_delay" =>
             /\ db_forwarding_tasks' = db_forwarding_tasks
             /\ forwarding_tasks' = forwarding_tasks]_vars

\* A stored task exists and the last command, an add or a delay update, was
\* refused for its delay.
C19_Witness ==
    /\ reply = "bad_delay"
    /\ Len(db_forwarding_tasks) = 1
    /\ Len(forwarding_tasks) = 1

Copying(m) == \E t \in Channels : copies[<<m, t>>].calls > 0

C22_ProcessingRowStaysPut ==
    [][\A i \in Rows :
          Abandoned(i) =>
              /\ command_queue'[i] = command_queue[i]
              /\ Abandoned(i)'
              /\ commands' # commands => i \notin Range(commands')]_vars

\* A row was left processing, by a process that died or by a consumer whose
\* two writes failed, and a later poll has fetched a batch of other rows.
C22_Witness ==
    \E i \in Rows :
        /\ Abandoned(i)
        /\ qpc = "claim"
        /\ idx = 1
        /\ i \notin Range(commands)

\* C23 (as stated): a row that becomes completed or failed was processing in
\* the state before, and the table never loses a row.
C23_TerminalOnlyAfterClaim ==
    [][/\ Len(command_queue') >= Len(command_queue)
       /\ \A i \in Rows :
             (command_queue'[i].status \in Terminal
                 /\ command_queue[i].status \notin Terminal)
             => command_queue[i].status = "processing"]_vars

\* The batch of the running tick is at most ten rows, in creation order, and
\* the rows after the one being handled are untouched.
BatchInOrder ==
    /\ Len(commands) <= BatchLimit
    /\ \A j, k \in 1..Len(commands) : j < k => commands[j] < commands[k]
    /\ \A k \in 1..Len(commands) :
          k > idx => command_queue[commands[k]].status = "pending"

C25_PollErrorBacksOff ==
    [][(qpc = "sleep" /\ faults' = faults + 1) =>
          (sleep_s' = BackoffInterval /\ qpc' = "sleep")]_vars

Completed == {i \in Rows : command_queue[i].status = "completed"}

\* C26 (as stated): with 2900 characters as the bound, the result of a
\* completed row is the outcome cut to the bound with the marker appended
\* when the outcome is longer than the bound, the outcome unchanged when it
\* is within the bound, and the default text when it is empty.
C26_CutAboveBound ==
    \A i \in Completed :
        LET r == command_queue[i].result
        IN  /\ r.given > TruncateTo => (r.marked /\ r.len = TruncateTo + MarkerLen)
            /\ (0 < r.given /\ r.given <= TruncateTo) =>
                  (~r.marked /\ ~r.default /\ r.len = r.given)
            /\ r.given = 0 => (r.default /\ r.len = DefaultLen)

\* C26 (amended): an outcome of more than 3000 characters is stored as its
\* first 2900 characters with the marker appended, an outcome of 1 to 3000
\* characters is stored unchanged, an empty one as the default text; so no
\* stored result is longer than 3000 characters.
C26_CutAboveThreshold ==
    \A i \in Completed :
        LET r == command_queue[i].result
        IN  /\ r.given > TruncateOver => (r.marked /\ r.len = TruncateTo + MarkerLen)
            /\ (0 < r.given /\ r.given <= TruncateOver) =>
                  (~r.marked /\ ~r.default /\ r.len = r.given)
            /\ r.given = 0 => (r.default /\ r.len = DefaultLen)
            /\ r.len <= TruncateOver

\* Three completed rows: one outcome was cut, one of exactly 3000 characters
\* was stored whole, one was empty.
C26_Witness ==
    \E i, j, k \in Completed :
        /\ command_queue[i].result.given = TruncateOver + 1
        /\ command_queue[i].result.marked
        /\ command_queue[j].result.given = TruncateOver
        /\ command_queue[j].result.len = TruncateOver
        /\ command_queue[k].result.default

\* len(re.findall(re.escape(sym), text)): the occurrences from the left, not
\* overlapping.
RECURSIVE Occurrences(_, _, _)
Occurrences(text, i, sym) ==
    IF i > Len(text) THEN 0
    ELSE IF Matches(text, i, sym) THEN 1 + Occurrences(text, i + Len(sym), sym)
    ELSE Occurrences(text, i + 1, sym)

RECURSIVE TotalOccurrences(_, _)
TotalOccurrences(text, todo) ==
    IF todo = <<>> THEN 0
    ELSE Occurrences(text, 1, Head(todo).emoji) + TotalOccurrences(text, Tail(todo))

\* C27 (as stated): in every rewrite that changes a message, each symbol
\* that has a target gets as many substitution spans, lying over it and
\* carrying its own target id, as it has occurrences in the original text,
\* and the result has no other substitution span.
C27_EveryOccurrenceReplaced ==
    \A k \in 1..Len(events) :
        LET e == events[k]
            c == posts[e.post].chan
            r == Rewrite(c, e.text, e.entities)
            todo == EmojisToReplace(c, extract_emojis_from_text(e.text))
            spans == SelectSeq(r.entities, IsCustomEmoji)
        IN  r.changed =>
              /\ Len(spans) = TotalOccurrences(e.text, todo)
              /\ \A n \in 1..Len(todo) :
                    Cardinality({j \in 1..Len(spans) :
                                    /\ SpanText(r.text, spans[j]) = todo[n].emoji
                                    /\ spans[j].document_id = todo[n].id})
                      = Occurrences(e.text, 1, todo[n].emoji)

\* Where a symbol first occurs in a text (0: nowhere).
FirstPos(text, sym) ==
    LET at == {i \in 1..Len(text) : Matches(text, i, sym)}
    IN  IF at = {} THEN 0 ELSE Min(at)

\* C28 (as stated): for the text of every message event, extract returns
\* every token the pattern finds, each returned symbol occurs in the text and
\* is returned once, and the symbols are returned in the order of their first
\* occurrences in the text, the fallback symbols included.
C28_UniqueInFirstOccurrenceOrder ==
    \A n \in 1..Len(events) :
        LET text == events[n].text
            out == extract_emojis_from_text(text)
        IN  /\ Range(FindAll(text, 1)) \subseteq Range(out)
            /\ \A j \in 1..Len(out) : FirstPos(text, out[j]) > 0
            /\ \A j, k \in 1..Len(out) :
                  j < k => /\ out[j] # out[k]
                           /\ FirstPos(text, out[j]) <= FirstPos(text, out[k])

\* The post is edited in this step.
Edited(p) == posts'[p].edits > posts[p].edits

\* The spans of a list that are not substitution spans, as a bag.
OtherSpans(ents) ==
    LET o == SelectSeq(ents, LAMBDA x : ~IsCustomEmoji(x))
    IN  [x \in Range(o) |-> Cardinality({k \in 1..Len(o) : o[k] = x})]

\* C29: whenever a rewrite edits a post, the span list it sends holds the
\* message's spans that are not substitution spans, each as it was and as
\* often as it was, holds as substitution spans exactly the ones the parse
\* of the rewritten markup gave, none of them a span the message had, and is
\* in ascending order of offset.
C29_SpanMerge ==
    [][\A p \in 1..Len(posts) :
          Edited(p) =>
              LET old == Head(events).entities
                  sent == posts'[p].entities
                  todo == EmojisToReplace(posts[p].chan,
                                          extract_emojis_from_text(Head(events).text))
                  parsed == Parse(ModifiedText(Head(events).text, todo))
              IN  /\ OtherSpans(sent) = OtherSpans(old)
                  /\ SelectSeq(sent, IsCustomEmoji)
                        = SelectSeq(parsed.entities, IsCustomEmoji)
                  /\ \A k \in 1..Len(old) : ~IsCustomEmoji(old[k])
                  /\ \A j, k \in 1..Len(sent) :
                        j < k => sent[j].offset <= sent[k].offset]_vars

\* A post was edited whose underline lies after a symbol that was replaced:
\* the list sent has the new substitution span first and the underline,
\* unchanged, after it.
C29_Witness ==
    \E p \in 1..Len(posts) :
        /\ posts[p].edits = 1
        /\ Len(posts[p].entities) = 2
        /\ IsCustomEmoji(posts[p].entities[1])
        /\ posts[p].entities[2].kind = "underline"
        /\ posts[p].entities[2].offset > 0

\* C30 (as stated): the list of spans a copy sends holds every span of the
\* message it copies, and holds no two spans of one kind at one offset.
C30_CopyKeepsEverySpan ==
    \A c \in 1..Len(copies) :
        LET given == copies[c].given.entities
            sent == copies[c].sent.entities
        IN  /\ \A k \in 1..Len(given) : given[k] \in Range(sent)
            /\ \A j, k \in 1..Len(sent) :
                  (j # k /\ sent[j].kind = sent[k].kind) => sent[j].offset # sent[k].offset

\* The cache holds a rule of channel c.
CachedChannelRules(c) ==
    c \in DOMAIN channel_emoji_mappings /\ DOMAIN channel_emoji_mappings[c] # {}

\* C31 (as stated): a step in which the last rules of channel c leave the
\* channel_emoji_replacements table reports success and leaves no rule of c
\* in the cache, and when the step is a removal of c (it was sent for a
\* monitored c and the table's row of c was active) c is monitored no longer;
\* and a step that ends the monitoring of c leaves no rule of c in the table.
C31_RemovalAndCascadeTogether ==
    [][\A c \in Channels :
          /\ (ChannelRuleKeys(c) # {} /\ ChannelRuleKeys(c)' = {}) =>
                /\ reply' = "ok"
                /\ ~CachedChannelRules(c)'
          /\ (c \in monitored_channels /\ c \notin monitored_channels') =>
                ChannelRuleKeys(c)' = {}]_vars

\* What delete_forwarding_task leaves of task id: its row, not active, and no
\* entry in the cache.
Deleted(id) ==
    /\ id \in 1..Len(db_forwarding_tasks)
    /\ ~db_forwarding_tasks[id].is_active
    /\ CachePos(forwarding_tasks, id) = {}

\* forward_message_to_targets copies for task id a message of its source.
Fires(id) ==
    \E c \in Channels :
        LET tasks == ActiveTasks(forwarding_tasks, monitored_channels, c)
        IN  \E k \in 1..Len(tasks) : tasks[k].id = id

\* C32 (as stated): while no pair is added anew, a deleted task does not fire
\* again and activate_forwarding_task does not bring it back: no step makes
\* its row active or caches it.
C32_DeletionIsFinal ==
    [][\A id \in TaskIds : Deleted(id) => Deleted(id)' /\ ~Fires(id)']_vars

\* C33 (as stated): the fan-out of the one posted message comes to rest:
\* from some moment on no new-message event is waiting and no copy operation
\* is under way, so only finitely many copies are made.
C33_FanOutComesToRest == <>[](events = <<>> /\ units = <<>>)

\* C34: each row is executed at most once.  A row that has left 'pending'
\* never returns to it; the consumer enters execute_queued_command only from
\* the claim of the row at hand, which was pending until that claim and is
\* processing after it; and it stands before a claim only with a pending row.
C34_ExecutedAtMostOnce ==
    [][/\ Len(command_queue') >= Len(command_queue)
       /\ \A i \in 1..Len(command_queue) :
             command_queue[i].status # "pending" =>
                 command_queue'[i].status # "pending"
       /\ qpc' = "claim" => command_queue'[commands'[idx']].status = "pending"
       /\ qpc' = "execute" =>
             \/ qpc = "execute" /\ commands' = commands /\ idx' = idx
             \/ /\ qpc = "claim"
                /\ commands' = commands /\ idx' = idx
                /\ command_queue[commands[idx]].status = "pending"
                /\ command_queue'[commands[idx]].status = "processing"]_vars

\* A later tick executes a row queued after the first tick began, while the
\* rows of the first tick are settled: one completed, one left in processing.
C34_Witness ==
    /\ qpc = "execute"
    /\ Len(command_queue) = 3
    /\ commands = <<3>>
    /\ command_queue[1].status = "completed"
    /\ command_queue[2].status = "processing"

\* The flag of a channel as stored and as cached; none without a row or entry.
StoredFlag(c) ==
    IF c \in DOMAIN db_monitored_channels
    THEN <<db_monitored_channels[c].replacement_active>>
    ELSE <<>>

CachedFlag(c) ==
    IF c \in DOMAIN channel_replacement_status
    THEN <<channel_replacement_status[c]>>
    ELSE <<>>

\* The handler of message m is through: every active task of the message's
\* channel has its copy, made or scheduled.
ForwardedToAll(m) ==
    LET h == messages[m]
    IN  h.pc = "done" =>
          /\ h.tasks = ActiveTasks(forwarding_tasks, monitored_channels, h.chan)
          /\ \A k \in 1..Len(h.tasks) :
                \/ copies[<<m, h.tasks[k].target>>].calls = 1
                \/ \E u \in units : u.msg = m /\ u.id = h.tasks[k].id
                                        /\ u.pc = "sleeping"

\* C35: a step edits a post only while the replacement of the post's channel
\* is enabled; a handler that is through has forwarded to every active task
\* of its channel, whatever the flag; and a step changes the flag, cached or
\* stored, of at most one channel.
C35_FlagStopsRewriteOnly ==
    [][/\ \A p \in 1..Len(posts) :
             posts'[p].edits > posts[p].edits => CachedFlag(posts[p].chan) # <<FALSE>>
       /\ \A m \in 1..Len(messages') : ForwardedToAll(m)'
       /\ \A c, d \in Channels :
             (c # d /\ (CachedFlag(c)' # CachedFlag(c) \/ StoredFlag(c)' # StoredFlag(c))) =>
                 /\ CachedFlag(d)' = CachedFlag(d)
                 /\ StoredFlag(d)' = StoredFlag(d)]_vars

\* A command has switched the replacement of channel 10 off; a message with
\* a symbol that has a rule was posted there, was not edited, and was copied
\* to channel 20, whose flag is on.
C35_Witness ==
    /\ reply = "ok"
    /\ ops = 1
    /\ CachedFlag(10) = <<FALSE>>
    /\ CachedFlag(20) = <<TRUE>>
    /\ Len(messages) = 1
    /\ messages[1].chan = 10
    /\ messages[1].pc = "done"
    /\ posts[1].text = <<"F">>
    /\ posts[1].edits = 0
    /\ copies[<<1, 20>>].ended = 1
    /\ ~copies[<<1, 20>>].failed

\* C36: the handling of a message-edited event starts no copy and wakes no
\* handler, and for each message and each target _copy_message_to_target is
\* called at most once, however often the post is edited.
C36_EditsNeverCopy ==
    [][/\ PipelineEdited => UNCHANGED <<copies, units, messages>>
       /\ \A k \in DOMAIN copies : copies'[k].calls <= 1]_vars

\* A post of channel 20 was copied to channel 10 once; the engine has edited
\* it and people have edited it twice, and every edit event has been handled.
C36_Witness ==
    /\ Len(messages) = 1
    /\ messages[1].chan = 20
    /\ messages[1].pc = "done"
    /\ copies[<<1, 10>>].calls = 1
    /\ copies[<<1, 10>>].ended = 1
    /\ ops = MaxEdits
    /\ posts[1].edits >= 1
    /\ events = <<>>

\* C37 (as stated): the built-in admin is in admin_ids after every step, and
\* no step takes the built-in admin or the session owner out of admin_ids or
\* deactivates the row of either.
C37_ProtectedAdminsStay ==
    [][/\ DefaultAdmin \in admin_ids'
       /\ \A u \in {DefaultAdmin, SessionOwner} :
             /\ u \in admin_ids => u \in admin_ids'
             /\ (u \in DOMAIN db_bot_admins /\ db_bot_admins[u]) =>
                   db_bot_admins'[u]]_vars

\* The part about the built-in admin alone.
C37_DefaultAdminStays == DefaultAdmin \in admin_ids

HasChannelRule(c, s) ==
    c \in DOMAIN channel_emoji_mappings /\ s \in DOMAIN channel_emoji_mappings[c]

HasGlobalRule(s) == s \in DOMAIN emoji_mappings

\* C5: for every channel c and symbol s, the replacement chosen for s in c is
\* the target of c's own rule for s when there is one, else the target of the
\* global rule for s, else none.
C5_ChannelRuleBeforeGlobalRule ==
    \A c \in Channels, s \in RuleSymbols :
        LET todo == EmojisToReplace(c, <<s>>)
        IN  /\ HasChannelRule(c, s) =>
                  todo = <<[emoji |-> s, id |-> channel_emoji_mappings[c][s]]>>
            /\ (~HasChannelRule(c, s) /\ HasGlobalRule(s)) =>
                  todo = <<[emoji |-> s, id |-> emoji_mappings[s]]>>
            /\ (~HasChannelRule(c, s) /\ ~HasGlobalRule(s)) => todo = <<>>

C5_Witness ==
    \E p \in 1..Len(posts), s \in RuleSymbols :
        LET c == posts[p].chan
        IN  /\ HasChannelRule(c, s) /\ HasGlobalRule(s)
            /\ channel_emoji_mappings[c][s] # emoji_mappings[s]
            /\ posts[p].edits = 1
            /\ \E k \in 1..Len(posts[p].entities) :
                  posts[p].entities[k].document_id = channel_emoji_mappings[c][s]
            /\ \E d \in Channels \ {c} : ~HasChannelRule(d, s)

\* C6: a message the engine has edited is edited once only, and rewriting its
\* stored text and entities again in the same channel changes nothing.
C6_RewriteIdempotent ==
    \A p \in 1..Len(posts) :
        /\ posts[p].edits <= 1
        /\ posts[p].edits > 0 =>
              ~Rewrite(posts[p].chan, posts[p].text, posts[p].entities).changed

C6_Witness ==
    \E p \in 1..Len(posts) :
        /\ posts[p].edits = 1
        /\ events = <<>>
        /\ ReplacementEnabled(posts[p].chan)
        /\ EmojisToReplace(posts[p].chan, extract_emojis_from_text(posts[p].text)) # <<>>

====
